---- MODULE Spec2Model ----
(***************************************************************************)
(* Code generation for waLBerla from pystencils / lbmpy descriptions:      *)
(* pystencils_walberla/codegen.py, lbmpy_walberla/additional_data_handler  *)
(* and lbmpy_walberla/walberla_lbm_generation.                             *)
(*                                                                         *)
(* Every generation entry point is one action: it draws its arguments      *)
(* from bounded sets, runs the whole function and leaves the outcome in    *)
(* `call`.  The generation context and the caller's cpu_vectorize_info     *)
(* dictionary live across calls.                                           *)
(***************************************************************************)
EXTENDS Integers, Sequences, FiniteSets, TLC

VARIABLES
    ctx,        \* the generation context (cuda, openmp, double_accuracy, optimize_for_localhost)
    vecInfo,    \* the caller's cpu_vectorize_info dictionary object, a partial map key -> value
    vecInfo0,   \* that dictionary as the caller built it, before any generation call
    call        \* the last call: its function, its arguments and what it did

vars == <<ctx, vecInfo, vecInfo0, call>>

----------------------------------------------------------------------------
(* Bounds *)

\* offsets handed to comm_directions have components in -MaxOffset..MaxOffset
MaxOffset == 2

\* a pack spec handed to generate_pack_info has at most MaxKeys direction sets
MaxKeys == 2

\* ... and at most MaxTerms terms, counted over all its direction sets
MaxTerms == 2

\* the values a field holds when generated pack and unpack lists are run: 0..MaxValue
MaxValue == 1

\* the assignments of a kernel read and write at most MaxAccesses field accesses
MaxAccesses == 2

----------------------------------------------------------------------------
(* Generic helpers *)

Range(s) == {s[i] : i \in 1..Len(s)}

AllZero(d) == \A i \in 1..Len(d) : d[i] = 0

Abs(x) == IF x < 0 THEN -x ELSE x

RECURSIVE Pow2(_)
Pow2(n) == IF n = 0 THEN 1 ELSE 2 * Pow2(n - 1)

RECURSIVE Concat(_)
\* the concatenation of a sequence of sequences
Concat(ss) == IF ss = <<>> THEN <<>> ELSE ss[1] \o Concat(Tail(ss))

NoCall == [fn |-> "none"]

\* the context and the dictionary of a specification that exercises pure functions only
PlainContext == [cuda |-> FALSE, openmp |-> FALSE, double_accuracy |-> TRUE,
                 optimize_for_localhost |-> FALSE]

EmptyDict == [k \in {} |-> FALSE]

----------------------------------------------------------------------------
(* Direction algebra: codegen.py, comm_directions and binary_numbers *)

\* binary_numbers(n): the n-digit binary numerals of 0 .. 2^n - 1, most significant digit first
BinaryNumbers(n) ==
    [i \in 1..Pow2(n) |-> [j \in 1..n |-> ((i - 1) \div Pow2(n - j)) % 2]]

\* the sign override dropped: a -1 component is communicated as +1
AdjustNoSign(direction, bits) ==
    [i \in 1..Len(direction) |-> IF direction[i] = 0 THEN 0 ELSE bits[i]]

\* the inner loop of comm_directions on one binary number
Adjust(direction, bits) ==
    [i \in 1..Len(direction) |->
        IF direction[i] = 0 THEN 0
        ELSE IF direction[i] = -1 /\ bits[i] = 1 THEN -1
        ELSE bits[i]]

\* comm_directions(direction): the sequence of yielded vectors, in yield order
CommDirections(direction) ==
    LET bn == BinaryNumbers(Len(direction))
        first == IF AllZero(direction) THEN <<direction>> ELSE <<>>
        rest == [i \in 1..Len(bn) |->
                    LET c == Adjust(direction, bn[i])
                    IN  IF AllZero(c) THEN <<>> ELSE <<c>>]
    IN  first \o Concat(rest)

Offsets(n) == [1..n -> (-MaxOffset)..MaxOffset]

\* the caller takes the result of the last call and goes on to its next call
Return ==
    /\ call.fn # "none"
    /\ call' = NoCall
    /\ UNCHANGED <<ctx, vecInfo, vecInfo0>>

CallCommDirections ==
    /\ call.fn = "none"
    /\ \E n \in {2, 3} : \E d \in Offsets(n) :
          \* no statement of comm_directions raises, whatever the components are
          call' = [fn |-> "comm_directions", direction |-> d, yielded |-> CommDirections(d),
                   raised |-> FALSE]
    /\ UNCHANGED <<ctx, vecInfo, vecInfo0>>

InitDir ==
    /\ ctx = PlainContext
    /\ vecInfo = EmptyDict
    /\ vecInfo0 = EmptyDict
    /\ call = NoCall

NextDir ==
    \/ CallCommDirections
    \/ Return

SpecDir == InitDir /\ [][NextDir]_vars

----------------------------------------------------------------------------
(* Claims on the direction algebra, checked under SpecDir *)

InFirstNeighbourhood(d) == \A i \in 1..Len(d) : d[i] \in {-1, 0, 1}

\* the non-zero vectors obtained from o by zeroing any subset of its components
SubDirections(o) ==
    {v \in [1..Len(o) -> {-1, 0, 1}] :
        /\ ~AllZero(v)
        /\ \A i \in 1..Len(o) : v[i] = 0 \/ v[i] = o[i]}

\* C1: for an offset o of dimension 2 or 3 with components in {-1,0,1}, the set of
\* vectors comm_directions(o) yields is {o} when o is zero, and otherwise exactly the
\* non-zero vectors got from o by replacing any subset of its non-zero components by 0.
C1_CommDirectionsSet ==
    (call.fn = "comm_directions" /\ InFirstNeighbourhood(call.direction)) =>
        Range(call.yielded) =
            IF AllZero(call.direction) THEN {call.direction}
            ELSE SubDirections(call.direction)

C1_Witness ==
    /\ call.fn = "comm_directions"
    /\ call.direction = <<1, -1, 0>>
    /\ Range(call.yielded) = {<<1, -1, 0>>, <<1, 0, 0>>, <<0, -1, 0>>}

\* C17 as stated: for an offset with components in {-1,0,1}, comm_directions yields
\* no direction more than once.
C17_YieldsEachDirectionOnce ==
    (call.fn = "comm_directions" /\ InFirstNeighbourhood(call.direction)) =>
        \A i, j \in 1..Len(call.yielded) : call.yielded[i] = call.yielded[j] => i = j

\* C18 as stated: for an offset with a component of magnitude greater than 1,
\* comm_directions raises and yields nothing.
C18_RejectsWideOffsets ==
    (call.fn = "comm_directions" /\ ~InFirstNeighbourhood(call.direction)) =>
        /\ call.raised
        /\ call.yielded = <<>>

----------------------------------------------------------------------------
(* Fields, field accesses and direction names                              *)

\* a pystencils field, as far as pack-info generation reads it: its name and its dtype
FieldF == [name |-> "f", dtype |-> "float64"]
FieldG == [name |-> "g", dtype |-> "float64"]
FieldH == [name |-> "h", dtype |-> "float32"]
\* a field without index dimension
FieldS == [name |-> "s", dtype |-> "float64"]

\* a field with two index dimensions
FieldT == [name |-> "t", dtype |-> "float64"]

\* len(field.index_shape)
IndexDimensions(field) == IF field = FieldS THEN 0 ELSE IF field = FieldT THEN 2 ELSE 1

\* Field.Access: a field, a relative cell (offsets) and a component index
Access(field, offsets, index) == [field |-> field, offsets |-> offsets, index |-> index]

Center == <<0, 0, 0>>

\* field.center(*index)
CenterAccess(field, index) == Access(field, Center, index)

\* the accesses callers hand to generate_pack_info in this model
TermsU ==
    {CenterAccess(FieldF, <<0>>), CenterAccess(FieldF, <<1>>),
     CenterAccess(FieldG, <<0>>), CenterAccess(FieldH, <<0>>)}

\* the direction-set keys callers hand to generate_pack_info in this model: one
\* direction, two directions in an order of the caller's, one direction outside the
\* first neighbourhood
KeysU == {<< <<1, 0, 0>> >>, << <<0, 1, 0>>, <<1, 0, 0>> >>, << <<2, 0, 0>> >>}

\* character codes of the names and signs that printed forms are made of
CharCode(c) ==
    CASE c = "f" -> 102 [] c = "g" -> 103 [] c = "h" -> 104 [] c = "s" -> 115
      [] c = "t" -> 116
      [] c = "[" -> 91 [] c = "]" -> 93 [] c = "(" -> 40 [] c = ")" -> 41
      [] c = "," -> 44 [] c = "-" -> 45

DigitCode(n) == 48 + n

\* str(n) of a small integer, as character codes
IntChars(n) == IF n < 0 THEN <<CharCode("-"), DigitCode(-n)>> ELSE <<DigitCode(n)>>

\* str(access): the field's name, the offsets and the index when it is not (0,);
\* the dtype of the field is no part of it
Str(a) ==
    <<CharCode(a.field.name), CharCode("[")>>
    \o Concat([i \in 1..Len(a.offsets) |->
                  (IF i = 1 THEN <<>> ELSE <<CharCode(",")>>) \o IntChars(a.offsets[i])])
    \o <<CharCode("]")>>
    \o (IF a.index = <<>> \/ a.index = <<0>> THEN <<>>
        ELSE <<CharCode("(")>> \o IntChars(a.index[1]) \o <<CharCode(")")>>)

RECURSIVE LexLess(_, _)
\* a < b on strings (sequences of character codes) and on tuples of integers
LexLess(a, b) ==
    IF b = <<>> THEN FALSE
    ELSE IF a = <<>> THEN TRUE
    ELSE IF a[1] # b[1] THEN a[1] < b[1]
    ELSE LexLess(Tail(a), Tail(b))

RECURSIVE TupleLess(_, _)
\* a < b on tuples of tuples of integers (direction-set keys)
TupleLess(a, b) ==
    IF b = <<>> THEN FALSE
    ELSE IF a = <<>> THEN TRUE
    ELSE IF a[1] # b[1] THEN LexLess(a[1], b[1])
    ELSE TupleLess(Tail(a), Tail(b))

\* offset_component_to_direction_string of pystencils.stencil
ComponentString(axis, value) ==
    LET letter == IF value = 0 THEN <<>>
                  ELSE IF value < 0 THEN << <<"W", "S", "B">>[axis] >>
                  ELSE << <<"E", "N", "T">>[axis] >>
    IN  IF Abs(value) > 1 THEN <<ToString(Abs(value))>> \o letter ELSE letter

\* offset_to_direction_string: "C", "N", "NE", "TNE", ... as the sequence of its signs
DirString(d) ==
    LET name == Concat([i \in 1..Len(d) |-> ComponentString(Len(d) + 1 - i, d[Len(d) + 1 - i])])
    IN  IF name = <<>> THEN <<"C">> ELSE name

\* inverse_direction of pystencils.stencil
InverseDirection(d) == [i \in 1..Len(d) |-> -d[i]]

----------------------------------------------------------------------------
(* generate_pack_info: ordering of the pack spec and the pack / unpack lists *)

RECURSIVE InsertTerm(_, _)
\* t put into the sorted list s behind every term whose printed form is not greater
InsertTerm(t, s) ==
    IF s = <<>> THEN <<t>>
    ELSE IF LexLess(Str(t), Str(s[1])) THEN <<t>> \o s
    ELSE <<s[1]>> \o InsertTerm(t, Tail(s))

RECURSIVE SortedByStr(_)
\* sorted(terms, key=lambda x: str(x)): stable
SortedByStr(terms) ==
    IF terms = <<>> THEN <<>>
    ELSE InsertTerm(terms[Len(terms)], SortedByStr(SubSeq(terms, 1, Len(terms) - 1)))

RECURSIVE InsertItem(_, _)
InsertItem(e, s) ==
    IF s = <<>> THEN <<e>>
    ELSE IF TupleLess(e.key, s[1].key) THEN <<e>> \o s
    ELSE <<s[1]>> \o InsertItem(e, Tail(s))

RECURSIVE SortedByKey(_)
\* sorted(items, key=lambda e: e[0]): stable
SortedByKey(items) ==
    IF items = <<>> THEN <<>>
    ELSE InsertItem(items[Len(items)], SortedByKey(SubSeq(items, 1, Len(items) - 1)))

\* the terms left in the order the caller's collection iterates them
OrderedTermsUnsorted(items) == items

\* lines 258-260: every term list sorted by printed form, the items sorted by key
OrderedTerms(items) ==
    SortedByKey([i \in 1..Len(items) |->
                    [key |-> items[i].key, terms |-> SortedByStr(items[i].terms)]])

\* a buffer access buffer(i); i counts from 0 as enumerate does
Buffer(i) == [buffer |-> i]

\* line 305
PackAssignments(terms) ==
    [i \in 1..Len(terms) |-> [lhs |-> Buffer(i - 1), rhs |-> terms[i]]]

\* unpack reading the buffer from its other end
UnpackAssignmentsReversed(terms, operator) ==
    [i \in 1..Len(terms) |->
        [lhs |-> terms[i], rhs |-> Buffer(Len(terms) - i), op |-> operator]]

\* lines 308-311: term = buffer(i), or term = operator(term, buffer(i))
UnpackAssignments(terms, operator) ==
    [i \in 1..Len(terms) |-> [lhs |-> terms[i], rhs |-> Buffer(i - 1), op |-> operator]]

\* line 302
DirectionStrings(direction_set) ==
    [i \in 1..Len(direction_set) |-> DirString(direction_set[i])]

\* lines 307 and 313: 'pack_' / 'unpack_' and the direction strings joined by '_'
FunctionName(prefix, direction_strings) == [prefix |-> prefix, joined |-> direction_strings]

----------------------------------------------------------------------------
(* Dictionaries, the generation context and config_from_context *)

DictGet(d, k, default) == IF k \in DOMAIN d THEN d[k] ELSE default

DictSet(d, k, v) == [x \in DOMAIN d \cup {k} |-> IF x = k THEN v ELSE d[x]]

\* get_supported_instruction_sets() on the generating machine
SupportedInstructionSets == <<"sse", "avx">>

\* get_vectorize_instruction_set
GetVectorizeInstructionSet(c) ==
    IF c.optimize_for_localhost
    THEN IF SupportedInstructionSets # <<>>
         THEN SupportedInstructionSets[Len(SupportedInstructionSets)]
         ELSE "sse"
    ELSE "None"

\* lines 492-495: the four entries the dictionary has after config_from_context
FillVectorizeInfo(d, c) ==
    LET d1 == DictSet(d, "instruction_set",
                      DictGet(d, "instruction_set", GetVectorizeInstructionSet(c)))
        d2 == DictSet(d1, "assume_inner_stride_one", DictGet(d1, "assume_inner_stride_one", TRUE))
        d3 == DictSet(d2, "assume_aligned", DictGet(d2, "assume_aligned", FALSE))
    IN  DictSet(d3, "nontemporal", DictGet(d3, "nontemporal", FALSE))

\* config_from_context.  vec is the cpu_vectorize_info argument: [given, dict];
\* kwargs are the remaining kernel-creation parameters.  The result says whether the
\* call raised, the configuration it built, and the dictionary object the
\* configuration refers to as the call leaves it.
ConfigFromContext(c, target, vec, kwargs) ==
    IF target = "GPU" /\ ~c.cuda
    THEN [raised |-> TRUE, error |-> "ValueError: no CUDA", dict |-> vec.dict,
          config |-> [target |-> target]]
    ELSE LET d == FillVectorizeInfo(IF vec.given THEN vec.dict ELSE EmptyDict, c)
         IN  [raised |-> FALSE, error |-> "", dict |-> d,
              config |-> [target |-> target,
                          data_type |-> IF c.double_accuracy THEN "float64" ELSE "float32",
                          cpu_openmp |-> c.openmp,
                          cpu_vectorize_info |-> d,
                          ghost_layers |-> IF "ghost_layers" \in DOMAIN kwargs
                                           THEN <<kwargs["ghost_layers"]>> ELSE <<>>]]

NoVec == [given |-> FALSE, dict |-> EmptyDict]

----------------------------------------------------------------------------
(* A generation entry point as the sequence of its steps.  A check raises   *)
(* its error when it fails; an external call (the kernel compiler, the      *)
(* template renderer) may raise; a return ends the call early and normally; *)
(* a write is a call of generation_context.write_file.                      *)

\* a step's name is <<what, k>>: k is the direction set a step of the pack-info loop
\* works on, and 0 elsewhere
Check(name, k, ok, error) ==
    [kind |-> "check", name |-> <<name, k>>, ok |-> ok, error |-> error]

External(name, k) ==
    [kind |-> "external", name |-> <<name, k>>, ok |-> TRUE, error |-> "external error"]

EarlyReturn(name, taken) == [kind |-> "return", name |-> <<name, 0>>, ok |-> ~taken, error |-> ""]

Write(name) == [kind |-> "write", name |-> <<name, 0>>, ok |-> TRUE, error |-> ""]

\* the external calls among the first i steps
ExternalsUpTo(steps, i) == Cardinality({j \in 1..i : steps[j].kind = "external"})

\* step i ends the call: a failed check, a taken return, the failAt-th external call
\* raising (failAt = 0: no external call raises)
Stops(steps, i, failAt) ==
    \/ steps[i].kind \in {"check", "return"} /\ ~steps[i].ok
    \/ steps[i].kind = "external" /\ failAt > 0 /\ ExternalsUpTo(steps, i) = failAt

\* what a call does: the steps it ran (log), how it ended, and the files it wrote
Execute(steps, failAt) ==
    LET stopping == {i \in 1..Len(steps) : Stops(steps, i, failAt)}
        last == IF stopping = {} THEN Len(steps)
                ELSE CHOOSE i \in stopping : \A j \in stopping : i <= j
        ran == SubSeq(steps, 1, last)
    IN  [log |-> [i \in 1..last |-> ran[i].name],
         outcome |-> IF stopping = {} THEN "completed"
                     ELSE IF steps[last].kind = "return" THEN "returned"
                     ELSE "raised",
         error |-> IF stopping = {} THEN "" ELSE steps[last].error,
         files |-> {ran[i].name[1] : i \in {j \in 1..last : ran[j].kind = "write"}}]

\* the header written as soon as it is rendered
EmissionStepsEager ==
    <<External("render header", 0), Write("header"), External("render source", 0), Write("source")>>

\* the end of generate_pack_info, generate_selective_sweep and __lattice_model: both
\* templates are rendered, then both files are written
EmissionSteps ==
    <<External("render header", 0), External("render source", 0), Write("header"), Write("source")>>

----------------------------------------------------------------------------
(* generate_pack_info *)

\* lines 274-278: the accesses of all term lists
FieldsAccessed(items) == UNION {Range(items[i].terms) : i \in 1..Len(items)}

FieldNames(items) == {fa.field.name : fa \in FieldsAccessed(items)}

DataTypes(items) == {fa.field.dtype : fa \in FieldsAccessed(items)}

\* lines 295-297
WithinFirstNeighbourhood(direction_set) ==
    \A k \in 1..Len(direction_set) :
        \A i \in 1..Len(direction_set[k]) : Abs(direction_set[k][i]) <= 1

\* the loop of lines 294-317 on the k-th direction set
DirectionSetSteps(ordered, k) ==
    <<Check("first neighbourhood", k, WithinFirstNeighbourhood(ordered[k].key),
            "NotImplementedError: Only first neighborhood supported"),
      External("create_kernel pack", k),
      External("create_kernel unpack", k)>>

\* generate_pack_info without the test of lines 285-287
PackInfoStepsAnyDtypes(c, target, vec, kwargs, ordered) ==
    LET cfg == ConfigFromContext(c, target, vec, kwargs)
    IN  <<Check("config_from_context", 0, ~cfg.raised, cfg.error),
          Check("config_from_context ghost_layers=0", 0, "ghost_layers" \notin DOMAIN kwargs,
                "TypeError: multiple values for keyword argument ghost_layers"),
          Check("fields to pack", 0, DataTypes(ordered) # {}, "ValueError: No fields to pack!")>>
        \o Concat([k \in 1..Len(ordered) |-> DirectionSetSteps(ordered, k)])
        \o <<External("create_kernel fused", 0)>>
        \o EmissionSteps

\* the steps of generate_pack_info; ordered is directions_to_pack_terms as lines
\* 258-260 leave it
PackInfoSteps(c, target, vec, kwargs, ordered) ==
    LET cfg == ConfigFromContext(c, target, vec, kwargs)
    IN  <<Check("config_from_context", 0, ~cfg.raised, cfg.error),
          Check("config_from_context ghost_layers=0", 0, "ghost_layers" \notin DOMAIN kwargs,
                "TypeError: multiple values for keyword argument ghost_layers"),
          Check("fields to pack", 0, DataTypes(ordered) # {}, "ValueError: No fields to pack!"),
          Check("one data type", 0, Cardinality(DataTypes(ordered)) = 1,
                "NotImplementedError: Fields of different data types")>>
        \o Concat([k \in 1..Len(ordered) |-> DirectionSetSteps(ordered, k)])
        \o <<External("create_kernel fused", 0)>>
        \o EmissionSteps

RECURSIVE PutAll(_, _)
\* successive d[key] = value on an OrderedDict, a sequence of [key, value]
PutAll(d, entries) ==
    IF entries = <<>> THEN d
    ELSE LET e == entries[1]
             at == {i \in 1..Len(d) : d[i].key = e.key}
         IN  PutAll(IF at = {} THEN Append(d, e)
                    ELSE [i \in 1..Len(d) |-> IF i \in at THEN e ELSE d[i]],
                    Tail(entries))

\* a compiled kernel: create_kernel(assignments, config) with its function_name set
Kernel(name, assignments, ghost_layers) ==
    [function_name |-> name, assignments |-> assignments, ghost_layers |-> ghost_layers]

\* lines 290-332: what a completed call hands to the templates
JinjaContext(c, target, kwargs, operator, ordered, pick) ==
    LET names == [k \in 1..Len(ordered) |-> DirectionStrings(ordered[k].key)]
    IN  [pack_kernels |->
            PutAll(<<>>, [k \in 1..Len(ordered) |->
                [key |-> names[k],
                 value |-> Kernel(FunctionName("pack", names[k]),
                                  PackAssignments(ordered[k].terms), <<0>>)]]),
         unpack_kernels |->
            PutAll(<<>>, [k \in 1..Len(ordered) |->
                [key |-> names[k],
                 value |-> Kernel(FunctionName("unpack", names[k]),
                                  UnpackAssignments(ordered[k].terms, operator), <<0>>)]]),
         elements_per_cell |->
            PutAll(<<>>, [k \in 1..Len(ordered) |->
                [key |-> names[k], value |-> Len(ordered[k].terms)]]),
         fused_terms |-> FieldsAccessed(ordered),
         fused_ghost_layers |-> IF "ghost_layers" \in DOMAIN kwargs
                                THEN <<kwargs["ghost_layers"]>> ELSE <<>>,
         target |-> target,
         dtype |-> DataTypes(ordered),
         field_name |-> pick]

NoContext == [pack_kernels |-> <<>>]

\* cpu_vectorize_info=None
NoVectorizeInfo == [none |-> TRUE]

\* lines 262-270: config and config_zero_gl as the kernels are compiled with them;
\* the second call of config_from_context passes ghost_layers=0 next to the caller's
\* parameters, and both configurations lose their vectorisation info
PackInfoConfigs(c, target, vec, kwargs) ==
    LET cfg == ConfigFromContext(c, target, vec, kwargs).config
    IN  [config |-> [cfg EXCEPT !.cpu_vectorize_info = NoVectorizeInfo],
         config_zero_gl |-> [cfg EXCEPT !.cpu_vectorize_info = NoVectorizeInfo,
                                        !.ghost_layers = <<0>>]]

NoConfigs == [config |-> NoVectorizeInfo]

\* generate_pack_info(generation_context, class_name, directions_to_pack_terms, ...).
\* failAt: which external call raises (0: none); pick: the name field_names.pop() takes.
GeneratePackInfo(c, target, vec, kwargs, operator, items, failAt, pick) ==
    LET ordered == OrderedTerms(items)
        run == Execute(PackInfoSteps(c, target, vec, kwargs, ordered), failAt)
        cfg == ConfigFromContext(c, target, vec, kwargs)
    IN  [run |-> run,
         ordered |-> ordered,
         context |-> IF run.outcome = "completed"
                     THEN JinjaContext(c, target, kwargs, operator, ordered, pick)
                     ELSE NoContext,
         configs |-> IF <<"fields to pack", 0>> \in Range(run.log)
                     THEN PackInfoConfigs(c, target, vec, kwargs)
                     ELSE NoConfigs,
         dict |-> IF cfg.raised THEN vec.dict ELSE cfg.dict]

----------------------------------------------------------------------------
(* The pack specs callers build *)

\* the sequences of at most n terms
TermLists(n) == UNION {[1..m -> TermsU] : m \in 0..n}

RECURSIVE PackSpecs(_, _, _)
\* items over the given keys, at most nkeys of them, with at most budget terms
PackSpecs(keys, nkeys, budget) ==
    {<<>>} \cup
    (IF nkeys = 0 THEN {}
     ELSE UNION {
            {<<[key |-> key, terms |-> terms]>> \o rest :
                rest \in PackSpecs(keys \ {key}, nkeys - 1, budget - Len(terms))} :
            <<key, terms>> \in keys \X TermLists(budget)})

PackInputs == PackSpecs(KeysU, MaxKeys, MaxTerms)

\* s in the order p, a permutation of its indices
Reordered(s, p) == [i \in 1..Len(s) |-> s[p[i]]]

Orders(s) == {Reordered(s, p) : p \in Permutations(1..Len(s))}

RECURSIVE TermOrders(_)
\* the items with every term list in any order
TermOrders(items) ==
    IF items = <<>> THEN {<<>>}
    ELSE {<<[key |-> items[1].key, terms |-> t]>> \o rest :
             t \in Orders(items[1].terms), rest \in TermOrders(Tail(items))}

\* the same collection in every iteration order: of the keys, and of the terms of each
Presentations(items) == UNION {Orders(x) : x \in TermOrders(items)}

----------------------------------------------------------------------------
(* Running generated pack and unpack lists on the values of one cell *)

\* the operator of a reduction pack info, applied by unpack: operator(term, buffer(i))
Apply(operator, old, received) == IF operator = "None" THEN received ELSE old + received

RECURSIVE RunPack(_, _, _)
\* buffer(i) = term, assignment after assignment
RunPack(assignments, mem, buffer) ==
    IF assignments = <<>> THEN buffer
    ELSE LET a == assignments[1]
         IN  RunPack(Tail(assignments), mem, [buffer EXCEPT ![a.lhs.buffer] = mem[a.rhs]])

RECURSIVE RunUnpack(_, _, _)
\* term = buffer(i), or term = operator(term, buffer(i)), assignment after assignment
RunUnpack(assignments, buffer, mem) ==
    IF assignments = <<>> THEN mem
    ELSE LET a == assignments[1]
         IN  RunUnpack(Tail(assignments), buffer,
                       [mem EXCEPT ![a.lhs] = Apply(a.op, mem[a.lhs], buffer[a.rhs.buffer])])

\* a buffer of n elements nothing has been written to
FreshBuffer(n) == [i \in 0..(n - 1) |-> -1]

----------------------------------------------------------------------------
(* SpecPack: pack-info generation on every pack spec within the bounds, for *)
(* the CPU and with a kernel compiler and a renderer that do not fail       *)

PickChoices(items) == IF FieldNames(items) = {} THEN {""} ELSE FieldNames(items)

CallGeneratePackInfo ==
    /\ call.fn = "none"
    /\ \E items \in PackInputs, operator \in {"None", "add"} :
         \E pick \in PickChoices(items) :
            call' = [fn |-> "generate_pack_info",
                     items |-> items,
                     operator |-> operator,
                     result |-> GeneratePackInfo(ctx, "CPU", NoVec, EmptyDict, operator,
                                                 items, 0, pick)]
    /\ UNCHANGED <<ctx, vecInfo, vecInfo0>>

\* one call, and a second call on the same collection iterated in another order
CallGeneratePackInfoTwice ==
    /\ call.fn = "none"
    /\ \E items \in PackInputs :
         \E again \in Presentations(items), pick \in PickChoices(items) :
            call' = [fn |-> "generate_pack_info twice",
                     items |-> items,
                     result |-> GeneratePackInfo(ctx, "CPU", NoVec, EmptyDict, "None",
                                                 items, 0, pick),
                     again_items |-> again,
                     again |-> GeneratePackInfo(ctx, "CPU", NoVec, EmptyDict, "None",
                                                again, 0, pick)]
    /\ UNCHANGED <<ctx, vecInfo, vecInfo0>>

\* the pack kernel and the unpack kernel of one direction set of the last generated
\* pack info, run one after the other on the values a cell holds in the packed accesses
RunPackThenUnpack ==
    /\ call.fn = "generate_pack_info"
    /\ call.result.run.outcome = "completed"
    /\ \E k \in 1..Len(call.result.context.pack_kernels) :
         LET pack == call.result.context.pack_kernels[k].value
             unpack == call.result.context.unpack_kernels[k].value
             packed == {pack.assignments[i].rhs : i \in 1..Len(pack.assignments)}
         IN  \E mem \in [packed -> 0..MaxValue] :
               LET buffer == RunPack(pack.assignments, mem,
                                     FreshBuffer(Len(pack.assignments)))
               IN  call' = [fn |-> "pack_unpack",
                            operator |-> call.operator,
                            pack |-> pack,
                            unpack |-> unpack,
                            before |-> mem,
                            buffer |-> buffer,
                            after |-> RunUnpack(unpack.assignments, buffer, mem)]
    /\ UNCHANGED <<ctx, vecInfo, vecInfo0>>

InitPack ==
    /\ ctx = PlainContext
    /\ vecInfo = EmptyDict
    /\ vecInfo0 = EmptyDict
    /\ call = NoCall

NextPack ==
    \/ CallGeneratePackInfo
    \/ CallGeneratePackInfoTwice
    \/ RunPackThenUnpack
    \/ Return

SpecPack == InitPack /\ [][NextPack]_vars

----------------------------------------------------------------------------
(* Claims on the pack spec, checked under SpecPack *)

\* C2: with operator=None, running the pack assignments (buffer[i] = term_i) and then
\* the unpack assignments (term_i = buffer[i]) of a direction set leaves every packed
\* access with the value it had before packing, and pack and unpack use the same
\* buffer index for the same term.
C2_PackUnpackRoundTrip ==
    (call.fn = "pack_unpack" /\ call.operator = "None") =>
        /\ Len(call.pack.assignments) = Len(call.unpack.assignments)
        /\ \A i \in 1..Len(call.pack.assignments) :
              /\ call.pack.assignments[i].lhs = call.unpack.assignments[i].rhs
              /\ call.pack.assignments[i].rhs = call.unpack.assignments[i].lhs
              /\ call.after[call.pack.assignments[i].rhs]
                     = call.before[call.pack.assignments[i].rhs]

C2_Witness ==
    /\ call.fn = "pack_unpack"
    /\ call.operator = "None"
    /\ Len(call.pack.assignments) = 2
    /\ call.before[call.pack.assignments[1].rhs] # call.before[call.pack.assignments[2].rhs]
    /\ call.buffer[0] # call.buffer[1]
    /\ call.after = call.before

\* the function names of the kernels of a generated pack info, in order
KernelNames(kernels) == [k \in 1..Len(kernels) |-> kernels[k].value.function_name]

\* the (direction set, ordered term list) pairs and the names a call produced
Produced(r) ==
    [outcome |-> r.run.outcome,
     ordered |-> r.ordered,
     pack |-> IF r.run.outcome = "completed" THEN KernelNames(r.context.pack_kernels) ELSE <<>>,
     unpack |-> IF r.run.outcome = "completed" THEN KernelNames(r.context.unpack_kernels)
                ELSE <<>>]

\* C3: two calls of generate_pack_info on inputs that are equal as collections and
\* iterate in different orders (the direction-set keys, the terms of each set) give
\* the same ordered sequence of (direction set, ordered term list) pairs and the same
\* pack_ / unpack_ function names.
C3_Deterministic ==
    call.fn = "generate_pack_info twice" => Produced(call.result) = Produced(call.again)

C3_Witness ==
    /\ call.fn = "generate_pack_info twice"
    /\ Len(call.items) = 2
    /\ call.again_items[1] # call.items[1]
    /\ \E k \in 1..2 : Len(call.items[k].terms) = 2
                       /\ call.items[k].terms[1] # call.items[k].terms[2]
                       /\ call.items[k].terms \notin {call.again_items[j].terms : j \in 1..2}
    /\ call.result.run.outcome = "completed"
    /\ Produced(call.result) = Produced(call.again)

----------------------------------------------------------------------------
(* generate_pack_info_from_kernel and generate_mpidtype_info_from_kernel *)

\* the field accesses the assignments of a kernel are made of in this model: centre,
\* face and edge neighbours, two components at the same neighbour, a neighbour two
\* cells away, a second field, and a field without index dimension at a neighbour and
\* at the centre
KernelAccessesU ==
    {Access(FieldF, <<0, 0, 0>>, <<0>>), Access(FieldF, <<1, 0, 0>>, <<0>>),
     Access(FieldF, <<1, 0, 0>>, <<1>>),
     Access(FieldF, <<-1, -1, 0>>, <<1>>), Access(FieldF, <<2, 0, 0>>, <<0>>),
     Access(FieldG, <<0, 1, 0>>, <<0>>), Access(FieldS, <<0, 0, -1>>, <<>>),
     Access(FieldS, <<0, 0, 0>>, <<>>)}

\* a kernel, as far as these functions read it: the accesses on right-hand sides
\* (reads) and on left-hand sides (writes) of its assignments
Kernels ==
    {k \in [reads : SUBSET KernelAccessesU, writes : SUBSET KernelAccessesU] :
        Cardinality(k.reads) + Cardinality(k.writes) <= MaxAccesses}

HaloWithinOne(accesses) ==
    \A fa \in accesses : \A i \in 1..Len(fa.offsets) : Abs(fa.offsets[i]) <= 1

\* lines 217-231: the accesses the loop of the given kind goes through
Visited(kind, kernel) ==
    IF kind = "pull" THEN kernel.reads ELSE IF kind = "push" THEN kernel.writes ELSE {}

\* the accesses the loop of the given kind adds to spec: those off the centre
Communicated(kind, kernel) == {fa \in Visited(kind, kernel) : ~AllZero(fa.offsets)}

\* the adds with the offset of a read access taken as it is
KernelSpecAddsNotInverted(kind, visiting) ==
    Concat([i \in 1..Len(visiting) |->
        LET fa == visiting[i]
            term == IF kind = "pull" THEN CenterAccess(fa.field, fa.index) ELSE fa
            dirs == CommDirections(fa.offsets)
        IN  [j \in 1..Len(dirs) |-> [key |-> <<dirs[j]>>, term |-> term]]])

\* lines 216-231: the spec[(comm_dir,)].add(term) calls in the order they are made
\* when the set of accesses is iterated in the order visiting
KernelSpecAdds(kind, visiting) ==
    Concat([i \in 1..Len(visiting) |->
        LET fa == visiting[i]
            comm == IF kind = "pull" THEN InverseDirection(fa.offsets) ELSE fa.offsets
            term == IF kind = "pull" THEN CenterAccess(fa.field, fa.index) ELSE fa
            dirs == CommDirections(comm)
        IN  [j \in 1..Len(dirs) |-> [key |-> <<dirs[j]>>, term |-> term]]])

RECURSIVE FirstOccurrences(_)
\* the elements of a sequence in the order of their first occurrence
FirstOccurrences(s) ==
    IF s = <<>> THEN <<>>
    ELSE LET rest == FirstOccurrences(SubSeq(s, 1, Len(s) - 1))
         IN  IF s[Len(s)] \in Range(rest) THEN rest ELSE Append(rest, s[Len(s)])

\* the sequences that list every element of S once
Enumerations(S) ==
    {s \in [1..Cardinality(S) -> S] : \A i, j \in 1..Cardinality(S) : s[i] = s[j] => i = j}

\* spec with one key per access, holding all directions the access is communicated in
KernelSpecItemsPerAccess(kind, visiting) ==
    [i \in 1..Len(visiting) |->
        LET fa == visiting[i]
        IN  [key |-> CommDirections(IF kind = "pull" THEN InverseDirection(fa.offsets)
                                    ELSE fa.offsets),
             terms |-> <<IF kind = "pull" THEN CenterAccess(fa.field, fa.index) ELSE fa>>]]

\* spec, a defaultdict(set), as generate_pack_info iterates it: its keys in the order
\* of their insertion, the terms of each key in the order the sorted list of line 258
\* has
KernelSpecItems(kind, visiting) ==
    LET adds == KernelSpecAdds(kind, visiting)
        keys == FirstOccurrences([i \in 1..Len(adds) |-> adds[i].key])
    IN  [i \in 1..Len(keys) |->
            [key |-> keys[i],
             terms |-> SortedByStr(CHOOSE s \in Enumerations(
                           {adds[j].term : j \in {x \in 1..Len(adds) : adds[x].key = keys[i]}}) : TRUE)]]

\* the steps of generate_pack_info_from_kernel before it calls generate_pack_info
FromKernelSteps(kind, kernel) ==
    <<Check("kind", 0, kind \in {"push", "pull"}, "AssertionError: kind"),
      Check("halo width", 0, HaloWithinOne(Visited(kind, kernel)), "AssertionError: offsets")>>

\* generate_pack_info_from_kernel; visiting is the order the set of accesses is
\* iterated in
GeneratePackInfoFromKernel(c, kind, kernel, target, vec, kwargs, operator, visiting, failAt, pick) ==
    LET items == KernelSpecItems(kind, visiting)
        ordered == OrderedTerms(items)
        run == Execute(FromKernelSteps(kind, kernel)
                       \o PackInfoSteps(c, target, vec, kwargs, ordered), failAt)
        cfg == ConfigFromContext(c, target, vec, kwargs)
        reached == <<"config_from_context", 0>> \in Range(run.log)
    IN  [run |-> run,
         spec |-> items,
         ordered |-> ordered,
         context |-> IF run.outcome = "completed"
                     THEN JinjaContext(c, target, kwargs, operator, ordered, pick)
                     ELSE NoContext,
         dict |-> IF reached /\ ~cfg.raised THEN cfg.dict ELSE vec.dict]

\* the header alone: MpiDtypeInfo has no source file
HeaderEmissionSteps == <<External("render header", 0), Write("header")>>

\* the steps of generate_mpidtype_info_from_kernel
MpidtypeSteps(kind, kernel) ==
    LET visited == Visited(kind, kernel)
    IN  <<Check("kind", 0, kind \in {"push", "pull"}, "AssertionError: kind"),
          Check("one field", 0, Cardinality({fa.field : fa \in visited}) = 1,
                "AssertionError: Only scenarios where one fields neighbors are accessed"),
          Check("accesses", 0,
                \A fa \in visited :
                    /\ HaloWithinOne({fa})
                    /\ AllZero(fa.offsets) \/ Len(fa.index) = 1,
                "AssertionError: offsets or index dimensions"),
          Check("f_size", 0, \A fa \in visited : IndexDimensions(fa.field) > 0,
                "IndexError: tuple index out of range")>>
        \o HeaderEmissionSteps

GenerateMpidtypeInfoFromKernel(kind, kernel, failAt) ==
    [run |-> Execute(MpidtypeSteps(kind, kernel), failAt)]

----------------------------------------------------------------------------
(* generate_sweep and generate_selective_sweep *)

\* a kernel selection tree, as far as generate_selective_sweep reads it: the target
\* of its kernels and the names of their field parameters
Trees == {[target |-> t, fields |-> f] : t \in {"CPU", "GPU"}, f \in {{}, {"f"}, {"g", "f"}}}

\* the steps of generate_selective_sweep; target is "None", "CPU" or "GPU"
SelectiveSweepSteps(c, tree, target) ==
    LET effective == IF target = "None" THEN tree.target ELSE target
    IN  <<External("KernelFamily", 0),
          Check("target", 0, target = "None" \/ target = tree.target,
                "ValueError: Mismatch between target parameter and AST targets."),
          EarlyReturn("no cuda", ~c.cuda /\ effective = "GPU"),
          Check("representative field", 0, tree.fields # {}, "IndexError: list index out of range"),
          External("HighLevelInterfaceSpec", 0)>>
        \o EmissionSteps

\* line 152
SourceExtension(target) == IF target = "CPU" THEN "cpp" ELSE "cu"

\* generate_selective_sweep
GenerateSelectiveSweep(c, tree, target, failAt) ==
    [run |-> Execute(SelectiveSweepSteps(c, tree, target), failAt),
     target |-> IF target = "None" THEN tree.target ELSE target,
     extension |-> SourceExtension(IF target = "None" THEN tree.target ELSE target)]

\* the steps of generate_sweep.  prebuilt: assignments is a KernelFunction, whose
\* target is astTarget and whose field parameters are fields.
SweepSteps(c, prebuilt, astTarget, fields, staggered, target, vec, kwargs) ==
    LET cfg == ConfigFromContext(c, target, vec, kwargs)
        effective == IF prebuilt THEN astTarget ELSE target
    IN  <<Check("omp_single_loop", 0, ~(staggered /\ "omp_single_loop" \in DOMAIN kwargs),
                "AssertionError: omp_single_loop"),
          Check("config_from_context", 0, ~cfg.raised, cfg.error)>>
        \o (IF prebuilt THEN <<>> ELSE <<External("create_kernel", 0)>>)
        \o SelectiveSweepSteps(c, [target |-> effective, fields |-> fields], effective)

\* generate_sweep
GenerateSweep(c, prebuilt, astTarget, fields, staggered, target, vec, kwargs, failAt) ==
    LET run == Execute(SweepSteps(c, prebuilt, astTarget, fields, staggered, target, vec, kwargs),
                       failAt)
        cfg == ConfigFromContext(c, target, vec, kwargs)
        reached == <<"config_from_context", 0>> \in Range(run.log)
    IN  [run |-> run,
         target |-> IF prebuilt THEN astTarget ELSE target,
         dict |-> IF reached /\ ~cfg.raised THEN cfg.dict ELSE vec.dict]

----------------------------------------------------------------------------
(* generate_lattice_model *)

FieldLayouts == {"fzyx", "zyxf", "numpy"}

\* lines 152-155
LayoutStride(d, field_layout) ==
    IF field_layout = "fzyx" THEN DictSet(d, "assume_inner_stride_one", TRUE)
    ELSE IF field_layout = "zyxf" THEN DictSet(d, "assume_inner_stride_one", FALSE)
    ELSE d

\* the steps of generate_lattice_model and of __lattice_model, which it ends with;
\* named: lb_method.stencil.name is not empty
LatticeModelSteps(c, target, vec, kwargs, named) ==
    LET cfg == ConfigFromContext(c, target, vec, kwargs)
    IN  <<Check("config_from_context", 0, ~cfg.raised, cfg.error),
          Check("target", 0, target # "GPU",
                "ValueError: Lattice Models can only be generated for CPUs."),
          External("create_kernel stream_collide", 0),
          External("create_kernel collide", 0),
          External("create_kernel stream", 0),
          Check("stencil name", 0, named,
                "ValueError: lb_method uses a stencil that is not supported in waLBerla"),
          External("equations_to_code", 0)>>
        \o EmissionSteps

\* generate_lattice_model
GenerateLatticeModel(c, field_layout, target, vec, kwargs, named, failAt) ==
    LET run == Execute(LatticeModelSteps(c, target, vec, kwargs, named), failAt)
        cfg == ConfigFromContext(c, target, vec, kwargs)
        configured == ~cfg.raised /\ target # "GPU"
        d == IF configured THEN LayoutStride(cfg.dict, field_layout)
             ELSE IF cfg.raised THEN vec.dict ELSE cfg.dict
    IN  [run |-> run,
         assumed_inner_stride_one |->
            IF <<"create_kernel stream_collide", 0>> \in Range(run.log)
            THEN <<d["assume_inner_stride_one"]>> ELSE <<>>,
         dict |-> d]

----------------------------------------------------------------------------
(* The generation entry points, called one after the other by a generation   *)
(* script that holds one generation context (ctx) and one dictionary          *)
(* (vecInfo, created as vecInfo0) which it may pass as cpu_vectorize_info.    *)

Targets == {"CPU", "GPU"}

\* the remaining keyword arguments of a call
KwargsU == {EmptyDict, [ghost_layers |-> 1], [omp_single_loop |-> TRUE]}

\* the dictionaries the script creates
VecInfoU == {EmptyDict, [assume_aligned |-> TRUE]}

\* the cpu_vectorize_info argument of a call that passes the script's dictionary or none
Passed(pass) == [given |-> pass, dict |-> vecInfo]

\* which external call of the steps raises: none, or any of those the call gets to
FailChoices(steps) == 0..ExternalsUpTo(steps, Len(Execute(steps, 0).log))

\* the collections the script hands to generate_pack_info
EntryPackInputs == {OrderedTerms(items) : items \in PackInputs}

CallConfigFromContext ==
    /\ call.fn = "none"
    /\ \E target \in Targets, pass \in BOOLEAN, kwargs \in KwargsU :
         LET r == ConfigFromContext(ctx, target, Passed(pass), kwargs)
         IN  /\ call' = [fn |-> "config_from_context", target |-> target, passed |-> pass,
                         raised |-> r.raised, error |-> r.error, config |-> r.config]
             /\ vecInfo' = IF pass THEN r.dict ELSE vecInfo
    /\ UNCHANGED <<ctx, vecInfo0>>

CallPackInfo ==
    /\ call.fn = "none"
    /\ \E items \in EntryPackInputs, target \in Targets, pass \in BOOLEAN,
          kwargs \in {EmptyDict, [ghost_layers |-> 1]} :
         \E pick \in PickChoices(items),
            failAt \in FailChoices(PackInfoSteps(ctx, target, Passed(pass), kwargs,
                                                 OrderedTerms(items))) :
            LET r == GeneratePackInfo(ctx, target, Passed(pass), kwargs, "None", items,
                                      failAt, pick)
            IN  /\ call' = [fn |-> "generate_pack_info", items |-> items,
                            operator |-> "None", target |-> target, kwargs |-> kwargs,
                            vec |-> Passed(pass), result |-> r]
                /\ vecInfo' = IF pass THEN r.dict ELSE vecInfo
    /\ UNCHANGED <<ctx, vecInfo0>>

Kinds == {"pull", "push", "gather"}

CallPackInfoFromKernel ==
    /\ call.fn = "none"
    /\ \E kernel \in Kernels, kind \in Kinds, target \in Targets :
         \E visiting \in Enumerations(Communicated(kind, kernel)) :
            LET items == KernelSpecItems(kind, visiting)
                steps == FromKernelSteps(kind, kernel)
                         \o PackInfoSteps(ctx, target, NoVec, EmptyDict, OrderedTerms(items))
            IN  \E pick \in PickChoices(items), failAt \in FailChoices(steps) :
                  call' = [fn |-> "generate_pack_info_from_kernel", kind |-> kind,
                           kernel |-> kernel, target |-> target,
                           result |-> GeneratePackInfoFromKernel(
                                          ctx, kind, kernel, target, NoVec, EmptyDict,
                                          "None", visiting, failAt, pick)]
    /\ UNCHANGED <<ctx, vecInfo, vecInfo0>>

CallMpidtypeInfoFromKernel ==
    /\ call.fn = "none"
    /\ \E kernel \in Kernels, kind \in Kinds :
         \E failAt \in FailChoices(MpidtypeSteps(kind, kernel)) :
            call' = [fn |-> "generate_mpidtype_info_from_kernel", kind |-> kind,
                     kernel |-> kernel,
                     result |-> GenerateMpidtypeInfoFromKernel(kind, kernel, failAt)]
    /\ UNCHANGED <<ctx, vecInfo, vecInfo0>>

CallSelectiveSweep ==
    /\ call.fn = "none"
    /\ \E tree \in Trees, target \in Targets \cup {"None"} :
         \E failAt \in FailChoices(SelectiveSweepSteps(ctx, tree, target)) :
            call' = [fn |-> "generate_selective_sweep", tree |-> tree, target |-> target,
                     result |-> GenerateSelectiveSweep(ctx, tree, target, failAt)]
    /\ UNCHANGED <<ctx, vecInfo, vecInfo0>>

CallSweep ==
    /\ call.fn = "none"
    /\ \E prebuilt \in BOOLEAN, tree \in Trees, staggered \in BOOLEAN, target \in Targets,
          pass \in BOOLEAN, kwargs \in KwargsU :
         \E failAt \in FailChoices(SweepSteps(ctx, prebuilt, tree.target, tree.fields,
                                              staggered, target, Passed(pass), kwargs)) :
            LET r == GenerateSweep(ctx, prebuilt, tree.target, tree.fields, staggered,
                                   target, Passed(pass), kwargs, failAt)
            IN  /\ call' = [fn |-> "generate_sweep", prebuilt |-> prebuilt,
                            target |-> target, result |-> r]
                /\ vecInfo' = IF pass THEN r.dict ELSE vecInfo
    /\ UNCHANGED <<ctx, vecInfo0>>

CallLatticeModel ==
    /\ call.fn = "none"
    /\ \E field_layout \in FieldLayouts, target \in Targets, pass \in BOOLEAN,
          kwargs \in KwargsU, named \in BOOLEAN :
         \E failAt \in FailChoices(LatticeModelSteps(ctx, target, Passed(pass), kwargs, named)) :
            LET r == GenerateLatticeModel(ctx, field_layout, target, Passed(pass), kwargs,
                                          named, failAt)
            IN  /\ call' = [fn |-> "generate_lattice_model", field_layout |-> field_layout,
                            target |-> target, result |-> r]
                /\ vecInfo' = IF pass THEN r.dict ELSE vecInfo
    /\ UNCHANGED <<ctx, vecInfo0>>

Init ==
    /\ ctx \in {[PlainContext EXCEPT !.cuda = cuda, !.optimize_for_localhost = local] :
                   cuda \in BOOLEAN, local \in BOOLEAN}
    /\ vecInfo0 \in VecInfoU
    /\ vecInfo = vecInfo0
    /\ call = NoCall

Next ==
    \/ CallConfigFromContext
    \/ CallPackInfo
    \/ CallPackInfoFromKernel
    \/ CallMpidtypeInfoFromKernel
    \/ CallSelectiveSweep
    \/ CallSweep
    \/ CallLatticeModel
    \/ Return

Spec == Init /\ [][Next]_vars

----------------------------------------------------------------------------
(* Claims on the generation entry points, checked under Spec *)

MixedDtypeError == "NotImplementedError: Fields of different data types"

\* building the kernel configurations of lines 262-266 raises
ConfigurationRaises ==
    \/ call.target = "GPU" /\ ~ctx.cuda
    \/ "ghost_layers" \in DOMAIN call.kwargs

\* C4 as stated: generate_pack_info raises the mixed-dtype error whenever the packed
\* accesses have two or more dtypes, and never when they share one.
C4_MixedDtypeAlwaysRaised ==
    call.fn = "generate_pack_info" =>
        /\ Cardinality(DataTypes(call.items)) >= 2 =>
              /\ call.result.run.outcome = "raised"
              /\ call.result.run.error = MixedDtypeError
        /\ Cardinality(DataTypes(call.items)) = 1 =>
              call.result.run.error # MixedDtypeError

\* C4: with packed accesses of two or more dtypes generate_pack_info never completes
\* and writes no file; it raises the mixed-dtype error unless building the kernel
\* configuration raised before (GPU target without CUDA, or a ghost_layers keyword
\* argument), in which case it raises that error.  With fewer than two dtypes it
\* never raises the mixed-dtype error.
C4_MixedDtypeRaisedAfterConfiguration ==
    call.fn = "generate_pack_info" =>
        /\ Cardinality(DataTypes(call.items)) >= 2 =>
              /\ call.result.run.outcome = "raised"
              /\ call.result.run.files = {}
              /\ ~ConfigurationRaises => call.result.run.error = MixedDtypeError
              /\ ConfigurationRaises =>
                    call.result.run.error \in
                        {"ValueError: no CUDA",
                         "TypeError: multiple values for keyword argument ghost_layers"}
        /\ Cardinality(DataTypes(call.items)) < 2 =>
              call.result.run.error # MixedDtypeError

\* a call on accesses of float64 and float32 fields, with a configuration that can be
\* built, has raised the mixed-dtype error
C4_Witness ==
    /\ call.fn = "generate_pack_info"
    /\ DataTypes(call.items) = {"float64", "float32"}
    /\ ~ConfigurationRaises
    /\ call.result.run.outcome = "raised"
    /\ call.result.run.error = MixedDtypeError

\* C5 as stated: generate_pack_info completes only when the packed terms refer to
\* exactly one field name; with none, or with two or more, it raises and writes no
\* file.
C5_ExactlyOneFieldName ==
    call.fn = "generate_pack_info" =>
        /\ call.result.run.outcome = "completed" => Cardinality(FieldNames(call.items)) = 1
        /\ Cardinality(FieldNames(call.items)) # 1 =>
              /\ call.result.run.outcome = "raised"
              /\ call.result.run.files = {}

EntryPoints ==
    {"generate_pack_info", "generate_pack_info_from_kernel", "generate_lattice_model",
     "generate_sweep", "generate_selective_sweep", "generate_mpidtype_info_from_kernel"}

\* the steps that call generation_context.write_file
IsWrite(name) == name[1] \in {"header", "source"}

\* C6: a call of a generation entry point that ends in an error raised by a
\* validation, a kernel compilation or a template rendering has written no file, and
\* every validation, compilation and rendering of a call comes before its first
\* write_file.
C6_NoPartialEmission ==
    call.fn \in EntryPoints =>
        LET run == call.result.run
        IN  /\ run.outcome # "completed" => run.files = {}
            /\ \A i, j \in 1..Len(run.log) :
                  (i < j /\ IsWrite(run.log[i])) => IsWrite(run.log[j])

\* generate_lattice_model has compiled its kernels and rendered the header, the
\* rendering of the source has raised, and no file is written
C6_Witness ==
    /\ call.fn = "generate_lattice_model"
    /\ call.result.run.outcome = "raised"
    /\ call.result.run.log[Len(call.result.run.log)] = <<"render source", 0>>
    /\ call.result.run.files = {}

\* the target a call generates for: the target argument, or the target of the
\* kernels where generate_sweep and generate_selective_sweep take it from them
EffectiveTarget ==
    IF call.fn \in {"generate_sweep", "generate_selective_sweep"}
    THEN call.result.target ELSE call.target

\* C7 as stated: a call of generate_sweep, generate_selective_sweep,
\* generate_pack_info or config_from_context whose effective target is GPU, under a
\* generation context without CUDA, raises an error.
C7_GpuWithoutCudaIsFatal ==
    (/\ call.fn \in {"generate_sweep", "generate_selective_sweep", "generate_pack_info",
                     "config_from_context"}
     /\ EffectiveTarget = "GPU"
     /\ ~ctx.cuda) =>
        IF call.fn = "config_from_context" THEN call.raised
        ELSE call.result.run.outcome = "raised"

\* C8 as stated: no call modifies the dictionary its caller supplies, and a
\* config_from_context call that is passed the dictionary builds the configuration
\* a first call would build from it.
C8_CallsIndependent ==
    /\ vecInfo = vecInfo0
    /\ (call.fn = "config_from_context" /\ call.passed /\ ~call.raised) =>
          call.config.cpu_vectorize_info = FillVectorizeInfo(vecInfo0, ctx)

----------------------------------------------------------------------------
(* Boundary additional-data handlers *)

\* the stencils of the lattice-Boltzmann methods in this model, in waLBerla's order of
\* directions
D2Q9 ==
    <<<<0, 0>>, <<0, 1>>, <<0, -1>>, <<-1, 0>>, <<1, 0>>,
      <<-1, 1>>, <<1, 1>>, <<-1, -1>>, <<1, -1>>>>

D3Q19 ==
    <<<<0, 0, 0>>, <<0, 1, 0>>, <<0, -1, 0>>, <<-1, 0, 0>>, <<1, 0, 0>>,
      <<0, 0, 1>>, <<0, 0, -1>>,
      <<-1, 1, 0>>, <<1, 1, 0>>, <<-1, -1, 0>>, <<1, -1, 0>>,
      <<0, 1, 1>>, <<0, -1, 1>>, <<-1, 0, 1>>, <<1, 0, 1>>,
      <<0, 1, -1>>, <<0, -1, -1>>, <<-1, 0, -1>>, <<1, 0, -1>>>>

Stencils == {D2Q9, D3Q19}

\* the classes of the boundary objects in this model; the last two have no handler
BoundaryKinds == {"FreeSlip", "UBB", "ExtrapolationOutflow", "NoSlip", "FixedDensity"}

\* a boundary object, as far as the handlers read it: its class, the additional data
\* it declares (the names of the entries) and its normal direction
Boundaries ==
    [kind : BoundaryKinds,
     additional_data : {<<>>, <<"data">>},
     normal_direction : {<<1, 0, 0>>, <<0, -1, 0>>, <<1, 1, 0>>, <<0, 0, 0>>}]

\* the handler objects; _dim and _walberla_stencil are what the base class derives
\* from the stencil: the dimension, and the directions with three components;
\* stencil is boundary_object.stencil, here the stencil of the method
Handler(class, stencil, boundary) ==
    [class |-> class,
     stencil |-> stencil,
     dim |-> Len(stencil[1]),
     walberla_stencil |-> [i \in 1..Len(stencil) |->
                              IF Len(stencil[i]) = 2 THEN stencil[i] \o <<0>> ELSE stencil[i]],
     boundary |-> boundary]

\* a normal direction is accepted as soon as it is not zero
StraightWallOrCorner(normal_direction) ==
    Cardinality({i \in 1..Len(normal_direction) : normal_direction[i] # 0}) >= 1

\* line 160
StraightWall(normal_direction) ==
    Cardinality({i \in 1..Len(normal_direction) : normal_direction[i] # 0}) = 1

\* the value None
NoHandler == [class |-> "None"]

Returned(value) == [outcome |-> "returned", value |-> value, error |-> <<>>]

Raised(type, about) == [outcome |-> "raised", value |-> NoHandler, error |-> <<type, about>>]

\* default_additional_data_handler with the dispatch on the class done first
DefaultAdditionalDataHandlerDispatchFirst(boundary_obj, stencil) ==
    IF boundary_obj.kind = "FreeSlip"
    THEN Returned(Handler("FreeSlipAdditionalDataHandler", stencil, boundary_obj))
    ELSE IF boundary_obj.kind = "UBB"
    THEN Returned(Handler("UBBAdditionalDataHandler", stencil, boundary_obj))
    ELSE IF boundary_obj.kind = "ExtrapolationOutflow"
    THEN IF StraightWall(boundary_obj.normal_direction)
         THEN Returned(Handler("OutflowAdditionalDataHandler", stencil, boundary_obj))
         ELSE Raised("AssertionError", "straight walls")
    ELSE Raised("ValueError", boundary_obj.kind)

\* default_additional_data_handler(boundary_obj, lb_method, field_name, target);
\* stencil is lb_method.stencil
DefaultAdditionalDataHandler(boundary_obj, stencil) ==
    IF boundary_obj.additional_data = <<>> THEN Returned(NoHandler)
    ELSE IF boundary_obj.kind = "FreeSlip"
    THEN Returned(Handler("FreeSlipAdditionalDataHandler", stencil, boundary_obj))
    ELSE IF boundary_obj.kind = "UBB"
    THEN Returned(Handler("UBBAdditionalDataHandler", stencil, boundary_obj))
    ELSE IF boundary_obj.kind = "ExtrapolationOutflow"
    THEN IF StraightWall(boundary_obj.normal_direction)
         THEN Returned(Handler("OutflowAdditionalDataHandler", stencil, boundary_obj))
         ELSE Raised("AssertionError", "straight walls")
    ELSE Raised("ValueError", boundary_obj.kind)

----------------------------------------------------------------------------
(* FreeSlipAdditionalDataHandler.data_initialisation: the text it emits, as a  *)
(* list of statements, and what running that text does                         *)

\* stencil.index(d), counted from 0
Index(stencil, d) == (CHOOSE i \in 1..Len(stencil) : stencil[i] = d) - 1

\* MirroredStencilDirections.mirror_stencil with the direction left as it is
MirrorStencilIdentity(direction, mirror_axis) == direction

\* MirroredStencilDirections.mirror_stencil(direction, mirror_axis), axes counted from 0
MirrorStencil(direction, mirror_axis) ==
    [i \in 1..Len(direction) |-> IF i = mirror_axis + 1 THEN -direction[i] ELSE direction[i]]

\* line 60: mirrored_dir of axis i
MirroredDir(stencil, i) ==
    [k \in 1..Len(stencil) |-> Index(stencil, MirrorStencil(stencil[k], i))]

AxisNames == <<"x", "y", "z">>

WallNormal(i) == <<"wnx", "wny", "wnz">>[i]

\* the statements of the emitted text
Table(name, content) == [op |-> "table", name |-> name, content |-> content]
Let(name, value) == [op |-> "let", name |-> name, value |-> value]
SetElement(name, value) == [op |-> "element", name |-> name, value |-> value]
MirrorRefDir(name) == [op |-> "mirror", name |-> name]
StoreRefDir == [op |-> "store ref_dir"]
IfPartOfMaskSet(cell, then) == [op |-> "if isPartOfMaskSet", cell |-> cell, then |-> then]
IfAllZero(names, then) == [op |-> "if all zero", names |-> names, then |-> then]

\* the cell the test of axis i looks at, relative to n
AdjacentCell(inv_offset, i) == [k \in 1..3 |-> IF k = i THEN inv_offset[i] ELSE 0]

\* lines 69-73, 74-78 and 81-85: the test of axis i
AxisTest(inv_offset, i) ==
    IfPartOfMaskSet(AdjacentCell(inv_offset, i),
                    <<SetElement(WallNormal(i), inv_offset[i]), MirrorRefDir(AxisNames[i])>>)

\* the concave-corner block without its last statement
ConcaveCornerKeepsRefDir(dim, inv_offset, direction) ==
    IfAllZero({WallNormal(i) : i \in 1..dim},
              [i \in 1..dim |-> SetElement(WallNormal(i), inv_offset[i])])

\* lines 86-93 and 95-101: the concave-corner block
ConcaveCorner(dim, inv_offset, direction) ==
    IfAllZero({WallNormal(i) : i \in 1..dim},
              [i \in 1..dim |-> SetElement(WallNormal(i), inv_offset[i])]
              \o <<Let("ref_dir", direction)>>)

\* data_initialisation(direction) of a free-slip handler; direction is an index into
\* the stencil
FreeSlipDataInitialisation(handler, direction) ==
    LET stencil == handler.walberla_stencil
        offset == stencil[direction + 1]
        inv_offset == InverseDirection(offset)
    IN  [i \in 1..handler.dim |-> Table(AxisNames[i], MirroredDir(stencil, i - 1))]
        \o <<Let("n", offset),
             Let("ref_dir", Index(stencil, inv_offset)),
             SetElement("wnx", 0),
             SetElement("wny", 0),
             AxisTest(inv_offset, 1),
             AxisTest(inv_offset, 2)>>
        \o (IF handler.dim = 3
            THEN <<SetElement("wnz", 0), AxisTest(inv_offset, 3)>>
            ELSE <<>>)
        \o <<ConcaveCorner(handler.dim, inv_offset, direction), StoreRefDir>>

----------------------------------------------------------------------------
(* OutflowAdditionalDataHandler: get_init_dict and data_initialisation *)

Min(a, b) == IF a < b THEN a ELSE b

\* pdf_accessor.accs: for each direction index the field access that writes the
\* population of that direction, given by its numeric_offsets and numeric_index.
\* Three shapes: written at the centre, written at the neighbour in the direction,
\* written at the neighbour into the slot of the inverse direction.
AccessTables(stencil) ==
    {[i \in 1..Len(stencil) |->
         [offsets |-> [k \in 1..Len(stencil[i]) |-> 0], index |-> <<i - 1>>]],
     [i \in 1..Len(stencil) |-> [offsets |-> stencil[i], index |-> <<i - 1>>]],
     [i \in 1..Len(stencil) |->
         [offsets |-> stencil[i], index |-> <<Index(stencil, InverseDirection(stencil[i]))>>]]}

\* line 205
Position == <<"it.x()", "it.y()", "it.z()">>

\* tangential_offset with the normal direction added instead of subtracted
TangentialOffsetAdded(direction, normal_direction) ==
    [i \in 1..Min(Len(direction), Len(normal_direction)) |-> direction[i] + normal_direction[i]]

\* line 209: tangential_offset
TangentialOffset(direction, normal_direction) ==
    [i \in 1..Min(Len(direction), Len(normal_direction)) |-> direction[i] - normal_direction[i]]

\* lines 213-218 and 221-226: the arguments of one get(...); a coordinate is a
\* position of the iterator plus cell_idx_c(number), the others are numbers
GetArguments(handler, acc, tangential_offset) ==
    LET n == Min(Len(Position), Min(Len(acc.offsets), Len(tangential_offset)))
    IN  [i \in 1..n |-> [position |-> Position[i],
                         cell_idx_c |-> acc.offsets[i] + tangential_offset[i]]]
        \o (IF handler.dim = 2 THEN <<[number |-> 0]>> ELSE <<>>)
        \o <<[number |-> acc.index[1]]>>

\* the arguments of the second get(...) without the tangential offset
PdfNdArgumentsNoTangent(handler, acc, tangential_offset) ==
    LET n == Min(Len(Position), Min(Len(acc.offsets), Len(tangential_offset)))
    IN  [i \in 1..n |-> [position |-> Position[i], cell_idx_c |-> acc.offsets[i]]]
        \o (IF handler.dim = 2 THEN <<[number |-> 0]>> ELSE <<>>)
        \o <<[number |-> acc.index[1]]>>

\* lines 221-227: the arguments of the get(...) of pdf_nd, built by a second copy of
\* the loop
PdfNdArguments(handler, acc, tangential_offset) ==
    LET n == Min(Len(Position), Min(Len(acc.offsets), Len(tangential_offset)))
    IN  [i \in 1..n |-> [position |-> Position[i],
                         cell_idx_c |-> acc.offsets[i] + tangential_offset[i]]]
        \o (IF handler.dim = 2 THEN <<[number |-> 0]>> ELSE <<>>)
        \o <<[number |-> acc.index[1]]>>

\* get_init_dict(pdf_accessor, direction_index): the dictionary as the sequence of
\* its entries; accs is pdf_accessor.accs
GetInitDict(handler, accs, direction_index) ==
    LET direction == handler.stencil[direction_index + 1]
        inv_dir == Index(handler.stencil, InverseDirection(direction))
        tangential_offset == TangentialOffset(direction, handler.boundary.normal_direction)
    IN  PutAll(<<>>,
               <<[key |-> "pdf",
                  value |-> GetArguments(handler, accs[inv_dir + 1], tangential_offset)],
                 [key |-> "pdf_nd",
                  value |-> PdfNdArguments(handler, accs[inv_dir + 1], tangential_offset)]>>)

\* data_initialisation(direction_index) of an outflow handler: one statement
\* element.key = field_name->get(arguments); for each entry
OutflowDataInitialisation(handler, accs, direction_index) ==
    LET init == GetInitDict(handler, accs, direction_index)
    IN  [i \in 1..Len(init) |->
            [op |-> "element get", name |-> init[i].key, arguments |-> init[i].value]]

\* what running the emitted text keeps: the tables, the local variables and the
\* entries of element
NoEnv == [tables |-> EmptyDict, locals |-> EmptyDict, element |-> EmptyDict]

\* a statement that is not a conditional
ExecSimple(stmt, env) ==
    IF stmt.op = "table"
    THEN [env EXCEPT !.tables = DictSet(env.tables, stmt.name, stmt.content)]
    ELSE IF stmt.op = "let"
    THEN [env EXCEPT !.locals = DictSet(env.locals, stmt.name, stmt.value)]
    ELSE IF stmt.op = "element"
    THEN [env EXCEPT !.element = DictSet(env.element, stmt.name, stmt.value)]
    ELSE IF stmt.op = "mirror"
    THEN [env EXCEPT !.locals = DictSet(env.locals, "ref_dir",
                                        env.tables[stmt.name][env.locals["ref_dir"] + 1])]
    ELSE [env EXCEPT !.element = DictSet(env.element, "ref_dir", env.locals["ref_dir"])]

RECURSIVE RunBlock(_, _)
\* the statements between the braces of a conditional
RunBlock(stmts, env) ==
    IF stmts = <<>> THEN env ELSE RunBlock(Tail(stmts), ExecSimple(stmts[1], env))

\* flags: which cells, relative to n, are part of the domain
Exec(stmt, env, flags) ==
    IF stmt.op = "if isPartOfMaskSet"
    THEN IF flags[stmt.cell] THEN RunBlock(stmt.then, env) ELSE env
    ELSE IF stmt.op = "if all zero"
    THEN IF \A name \in stmt.names : env.element[name] = 0
         THEN RunBlock(stmt.then, env) ELSE env
    ELSE ExecSimple(stmt, env)

RECURSIVE RunInitialiserText(_, _, _)
RunInitialiserText(stmts, env, flags) ==
    IF stmts = <<>> THEN env
    ELSE RunInitialiserText(Tail(stmts), Exec(stmts[1], env, flags), flags)

\* the cells the conditionals of a text look at
TestedCells(stmts) ==
    {stmts[i].cell : i \in {k \in 1..Len(stmts) : stmts[k].op = "if isPartOfMaskSet"}}

----------------------------------------------------------------------------
(* A boundary generation: a handler is chosen for a boundary, asked for the   *)
(* initialiser text of a direction, and the text is run on a flag field       *)

CallDefaultAdditionalDataHandler ==
    /\ call.fn = "none"
    /\ \E boundary_obj \in Boundaries, stencil \in Stencils :
          call' = [fn |-> "default_additional_data_handler", boundary |-> boundary_obj,
                   result |-> DefaultAdditionalDataHandler(boundary_obj, stencil)]
    /\ UNCHANGED <<ctx, vecInfo, vecInfo0>>

CallDataInitialisation ==
    /\ call.fn = "default_additional_data_handler"
    /\ call.result.value.class = "FreeSlipAdditionalDataHandler"
    /\ \E direction \in 0..(Len(call.result.value.walberla_stencil) - 1) :
          call' = [fn |-> "data_initialisation", handler |-> call.result.value,
                   direction |-> direction,
                   text |-> FreeSlipDataInitialisation(call.result.value, direction)]
    /\ UNCHANGED <<ctx, vecInfo, vecInfo0>>

RunInitialiser ==
    /\ call.fn = "data_initialisation"
    /\ \E flags \in [TestedCells(call.text) -> BOOLEAN] :
          call' = [fn |-> "initialiser", handler |-> call.handler,
                   direction |-> call.direction, flags |-> flags,
                   element |-> RunInitialiserText(call.text, NoEnv, flags).element]
    /\ UNCHANGED <<ctx, vecInfo, vecInfo0>>

CallOutflowDataInitialisation ==
    /\ call.fn = "default_additional_data_handler"
    /\ call.result.value.class = "OutflowAdditionalDataHandler"
    /\ \E direction \in 0..(Len(call.result.value.stencil) - 1),
          accs \in AccessTables(call.result.value.stencil) :
          call' = [fn |-> "outflow data_initialisation", handler |-> call.result.value,
                   direction |-> direction, accs |-> accs,
                   text |-> OutflowDataInitialisation(call.result.value, accs, direction)]
    /\ UNCHANGED <<ctx, vecInfo, vecInfo0>>

InitBoundary ==
    /\ ctx = PlainContext
    /\ vecInfo = EmptyDict
    /\ vecInfo0 = EmptyDict
    /\ call = NoCall

NextBoundary ==
    \/ CallDefaultAdditionalDataHandler
    \/ CallDataInitialisation
    \/ CallOutflowDataInitialisation
    \/ RunInitialiser
    \/ Return

SpecBoundary == InitBoundary /\ [][NextBoundary]_vars

----------------------------------------------------------------------------
(* Claims on the boundary handlers, checked under SpecBoundary *)

RegisteredKinds == {"FreeSlip", "UBB", "ExtrapolationOutflow"}

\* C9 as stated: for a boundary of a kind other than FreeSlip, UBB and
\* ExtrapolationOutflow, default_additional_data_handler raises an error naming the
\* kind, whatever additional data the boundary declares.
C9_UnknownKindAlwaysRaises ==
    (call.fn = "default_additional_data_handler" /\ call.boundary.kind \notin RegisteredKinds) =>
        /\ call.result.outcome = "raised"
        /\ call.result.error = <<"ValueError", call.boundary.kind>>

\* C9: for a boundary of a kind other than FreeSlip, UBB and ExtrapolationOutflow
\* that declares additional data, default_additional_data_handler raises a ValueError
\* naming the kind; for one that declares none it returns None.  It never returns a
\* handler for such a boundary.
C9_UnknownKindRaisesWithAdditionalData ==
    (call.fn = "default_additional_data_handler" /\ call.boundary.kind \notin RegisteredKinds) =>
        /\ call.result.value = NoHandler
        /\ call.boundary.additional_data # <<>> =>
              /\ call.result.outcome = "raised"
              /\ call.result.error = <<"ValueError", call.boundary.kind>>
        /\ call.boundary.additional_data = <<>> => call.result.outcome = "returned"

\* a NoSlip boundary that declares additional data has been refused by name
C9_Witness ==
    /\ call.fn = "default_additional_data_handler"
    /\ call.boundary.kind = "NoSlip"
    /\ call.boundary.additional_data # <<>>
    /\ call.result.outcome = "raised"
    /\ call.result.error = <<"ValueError", "NoSlip">>

\* the test of axis a has succeeded in a run of the initialiser
TestSucceeded(a) ==
    call.flags[AdjacentCell(InverseDirection(call.handler.walberla_stencil[call.direction + 1]), a)]

\* C10: when the initialiser of a free-slip boundary direction d is run and leaves a
\* wall normal that is not zero, then on each axis a of the handler's dimension the
\* component of the wall normal is inverse(d)[a] if the test of the cell adjacent on
\* axis a succeeded and 0 otherwise, and element.ref_dir is the index of inverse(d)
\* with the components of exactly the axes whose test succeeded negated.
C10_FreeSlipNonFallback ==
    call.fn = "initialiser" =>
        LET stencil == call.handler.walberla_stencil
            dim == call.handler.dim
            inv == [k \in 1..3 |-> -stencil[call.direction + 1][k]]
            normal == [a \in 1..dim |-> IF TestSucceeded(a) THEN inv[a] ELSE 0]
            mirrored == [k \in 1..3 |-> IF k <= dim /\ TestSucceeded(k) THEN -inv[k] ELSE inv[k]]
        IN  (\E a \in 1..dim : normal[a] # 0) =>
               /\ \A a \in 1..dim : call.element[WallNormal(a)] = normal[a]
               /\ \E i \in 1..Len(stencil) :
                     stencil[i] = mirrored /\ call.element["ref_dir"] = i - 1

\* D3Q19, direction (0,1,0), the cell adjacent in y in the domain and the cell n
\* itself, which the tests of x and z look at, not: wny = -1, wnx = wnz = 0 and
\* ref_dir is the index of (0,1,0), the mirror image in y of (0,-1,0)
C10_Witness ==
    /\ call.fn = "initialiser"
    /\ call.handler.dim = 3
    /\ call.handler.walberla_stencil[call.direction + 1] = <<0, 1, 0>>
    /\ call.flags[<<0, -1, 0>>]
    /\ ~call.flags[<<0, 0, 0>>]
    /\ call.element["wnx"] = 0
    /\ call.element["wny"] = -1
    /\ call.element["wnz"] = 0
    /\ call.handler.walberla_stencil[call.element["ref_dir"] + 1] = <<0, 1, 0>>

\* the statements of a text, those between the braces of its conditionals included
AllStatements(stmts) ==
    Range(stmts) \cup UNION {Range(stmts[i].then) :
                                i \in {k \in 1..Len(stmts) : "then" \in DOMAIN stmts[k]}}

\* C11: when no test of an adjacent cell succeeds in a run of the free-slip
\* initialiser of direction index d, the wall normal is inverse(d) on every axis of
\* the handler's dimension and element.ref_dir is d itself; the text emitted for a
\* handler of dimension 2 has no test on the z axis and no assignment to wnz.
C11_FreeSlipConcaveCorner ==
    /\ call.fn = "initialiser" =>
          LET stencil == call.handler.walberla_stencil
              dim == call.handler.dim
          IN  (\A a \in 1..dim : ~TestSucceeded(a)) =>
                 /\ \A a \in 1..dim :
                       call.element[WallNormal(a)] = -stencil[call.direction + 1][a]
                 /\ call.element["ref_dir"] = call.direction
                 /\ dim = 2 => "wnz" \notin DOMAIN call.element
    /\ (call.fn = "data_initialisation" /\ call.handler.dim = 2) =>
          \A stmt \in AllStatements(call.text) :
             /\ stmt.op = "element" => stmt.name # "wnz"
             /\ stmt.op = "mirror" => stmt.name # "z"
             /\ stmt.op = "if isPartOfMaskSet" => stmt.cell[3] = 0

\* D2Q9, direction (1,1): neither the cell adjacent in x nor the one adjacent in y
\* is in the domain, the wall normal is (-1,-1) and ref_dir is the index of (1,1)
C11_Witness ==
    /\ call.fn = "initialiser"
    /\ call.handler.dim = 2
    /\ call.handler.walberla_stencil[call.direction + 1] = <<1, 1, 0>>
    /\ \A a \in 1..2 : ~TestSucceeded(a)
    /\ call.element["wnx"] = -1
    /\ call.element["wny"] = -1
    /\ call.element["ref_dir"] = call.direction

\* C12: in the text an outflow handler with a straight normal n emits for direction
\* d, the pdf entry reads the field, on each spatial axis, at the iterator's position
\* plus the offset on that axis of the access of the inverse direction of d plus
\* d - n on that axis, and its component index is the index of that access.
C12_OutflowIndexing ==
    call.fn = "outflow data_initialisation" =>
        LET stencil == call.handler.stencil
            d == stencil[call.direction + 1]
            n == call.handler.boundary.normal_direction
            pdf == call.text[1]
        IN  /\ pdf.name = "pdf"
            /\ Len(pdf.arguments) = 4
            /\ \E j \in 1..Len(stencil) :
                  /\ \A a \in 1..Len(d) : stencil[j][a] = -d[a]
                  /\ \A a \in 1..Len(d) :
                        /\ pdf.arguments[a].position = <<"it.x()", "it.y()", "it.z()">>[a]
                        /\ pdf.arguments[a].cell_idx_c =
                              call.accs[j].offsets[a] + (d[a] - n[a])
                  /\ pdf.arguments[4].number = call.accs[j].index[1]

\* D3Q19, normal (1,0,0), direction (1,1,0), populations written at the neighbour:
\* the access of the inverse direction has offsets (-1,-1,0), the tangential offset
\* is (0,1,0), and pdf reads at (x - 1, y + 0, z + 0)
C12_Witness ==
    /\ call.fn = "outflow data_initialisation"
    /\ call.handler.dim = 3
    /\ call.handler.boundary.normal_direction = <<1, 0, 0>>
    /\ call.handler.stencil[call.direction + 1] = <<1, 1, 0>>
    /\ call.accs[call.direction + 1].offsets = <<1, 1, 0>>
    /\ call.text[1].arguments[1].cell_idx_c = -1
    /\ call.text[1].arguments[2].cell_idx_c = 0
    /\ call.text[1].arguments[3].cell_idx_c = 0

\* C26: in the text an outflow handler emits for a direction, the entry pdf_nd reads
\* the field with the same arguments as the entry pdf: the same position with the
\* same offsets on every axis and the same component index.
C26_PdfNdEqualsPdf ==
    call.fn = "outflow data_initialisation" =>
        /\ Len(call.text) = 2
        /\ call.text[1].name = "pdf"
        /\ call.text[2].name = "pdf_nd"
        /\ call.text[2].arguments = call.text[1].arguments

\* D2Q9, normal (0,-1,0), direction (1,1), populations written at the neighbour:
\* both entries read at (x - 1 + 1, y - 1 + 2), third argument 0, and the index of
\* the access of the inverse direction
C26_Witness ==
    /\ call.fn = "outflow data_initialisation"
    /\ call.handler.dim = 2
    /\ call.handler.boundary.normal_direction = <<0, -1, 0>>
    /\ call.handler.stencil[call.direction + 1] = <<1, 1>>
    /\ call.accs[call.direction + 1].offsets = <<1, 1>>
    /\ Len(call.text[2].arguments) = 4
    /\ call.text[2].arguments[1].cell_idx_c = 0
    /\ call.text[2].arguments[2].cell_idx_c = 1
    /\ call.text[2].arguments[3].number = 0
    /\ call.text[2].arguments = call.text[1].arguments

\* C13: an OutflowAdditionalDataHandler is constructed only for a boundary whose
\* normal direction is not zero on exactly one axis; for any other normal the
\* construction raises and no handler is returned.
C13_OutflowStraightWallOnly ==
    (/\ call.fn = "default_additional_data_handler"
     /\ call.boundary.kind = "ExtrapolationOutflow"
     /\ call.boundary.additional_data # <<>>) =>
        LET nonzero == {i \in 1..3 : call.boundary.normal_direction[i] # 0}
        IN  IF Cardinality(nonzero) = 1
            THEN /\ call.result.outcome = "returned"
                 /\ call.result.value.class = "OutflowAdditionalDataHandler"
            ELSE /\ call.result.outcome = "raised"
                 /\ call.result.error[1] = "AssertionError"
                 /\ call.result.value = NoHandler

\* the construction for the normal (1,1,0) has raised
C13_Witness ==
    /\ call.fn = "default_additional_data_handler"
    /\ call.boundary.kind = "ExtrapolationOutflow"
    /\ call.boundary.additional_data # <<>>
    /\ call.boundary.normal_direction = <<1, 1, 0>>
    /\ call.result.outcome = "raised"
    /\ call.result.value = NoHandler

----------------------------------------------------------------------------
(* Claims on the grouping and validation of generate_pack_info_from_kernel,   *)
(* checked under Spec                                                          *)

\* the call has handed its spec to generate_pack_info
SpecHandedOver ==
    /\ call.fn = "generate_pack_info_from_kernel"
    /\ <<"config_from_context", 0>> \in Range(call.result.run.log)

\* the terms the spec of the call holds for direction D
SpecTerms(D) ==
    UNION {Range(call.result.spec[i].terms) :
              i \in {k \in 1..Len(call.result.spec) : call.result.spec[k].key = <<D>>}}

\* the directions the spec of the call has a key for
SpecDirections ==
    {call.result.spec[i].key[1] : i \in 1..Len(call.result.spec)}

\* C14: with kind='pull' the spec handed to generate_pack_info holds, for each
\* direction D, exactly the centre forms of the read accesses whose offset o is not
\* zero and for which D is among comm_directions(inverse(o)); it has one key (D,) for
\* each direction with such an access and no other key, so read accesses at the
\* centre and write accesses contribute nothing.
C14_PullGrouping ==
    (SpecHandedOver /\ call.kind = "pull") =>
        LET expected(D) ==
                {[field |-> fa.field, offsets |-> <<0, 0, 0>>, index |-> fa.index] :
                    fa \in {x \in call.kernel.reads :
                               /\ x.offsets # <<0, 0, 0>>
                               /\ D \in Range(CommDirections([i \in 1..3 |-> -x.offsets[i]]))}}
        IN  /\ \A i \in 1..Len(call.result.spec) : Len(call.result.spec[i].key) = 1
            /\ \A i, j \in 1..Len(call.result.spec) :
                  call.result.spec[i].key = call.result.spec[j].key => i = j
            /\ \A D \in SpecDirections \cup
                        UNION {Range(CommDirections([i \in 1..3 |-> -x.offsets[i]])) :
                                  x \in call.kernel.reads} :
                  /\ SpecTerms(D) = expected(D)
                  /\ D \in SpecDirections <=> expected(D) # {}

\* a pull kernel that reads f(1) at (-1,-1,0) and writes off the centre: the spec has
\* the three keys (1,0,0), (0,1,0) and (1,1,0), each with the centre access f(1)
C14_Witness ==
    /\ SpecHandedOver
    /\ call.kind = "pull"
    /\ call.kernel.reads = {Access(FieldF, <<-1, -1, 0>>, <<1>>)}
    /\ \E fa \in call.kernel.writes : fa.offsets # <<0, 0, 0>>
    /\ SpecDirections = {<<1, 0, 0>>, <<0, 1, 0>>, <<1, 1, 0>>}
    /\ \A D \in SpecDirections : SpecTerms(D) = {CenterAccess(FieldF, <<1>>)}

\* the character codes of the signs direction names are made of
LetterCode(c) ==
    CASE c = "B" -> 66 [] c = "C" -> 67 [] c = "E" -> 69 [] c = "N" -> 78
      [] c = "S" -> 83 [] c = "T" -> 84 [] c = "W" -> 87 [] c = "2" -> 50

\* a tuple of direction names is in sorted order
NamesSorted(names) ==
    \A i, j \in 1..Len(names) :
        i < j => ~LexLess([k \in 1..Len(names[j]) |-> LetterCode(names[j][k])],
                          [k \in 1..Len(names[i]) |-> LetterCode(names[i][k])])

\* sorted(names)
SortedNames(names) ==
    CHOOSE s \in [1..Len(names) -> Range(names)] :
        /\ NamesSorted(s)
        /\ \E p \in Enumerations(1..Len(names)) : \A i \in 1..Len(names) : s[i] = names[p[i]]

\* the value a dictionary of the template context holds for a key
ValuesAt(d, key) == {d[i].value : i \in {k \in 1..Len(d) : d[k].key = key}}

\* C21 as stated: a completed generate_pack_info has, for every direction set of the
\* caller, the sorted tuple of its direction names as a key of pack_kernels,
\* unpack_kernels and elements_per_cell, and names the kernels of that key 'pack_' and
\* 'unpack_' followed by the sorted names.
C21_KeysAreSortedNames ==
    (call.fn = "generate_pack_info" /\ call.result.run.outcome = "completed") =>
        \A k \in 1..Len(call.items) :
            LET key == SortedNames(DirectionStrings(call.items[k].key))
                c == call.result.context
            IN  /\ ValuesAt(c.elements_per_cell, key) # {}
                /\ ValuesAt(c.pack_kernels, key) # {}
                /\ ValuesAt(c.unpack_kernels, key) # {}
                /\ \A v \in ValuesAt(c.pack_kernels, key) :
                      v.function_name = FunctionName("pack", key)
                /\ \A v \in ValuesAt(c.unpack_kernels, key) :
                      v.function_name = FunctionName("unpack", key)

\* a call of generate_pack_info on the available target with terms of one data type
\* and direction sets within the first neighbourhood, in which neither the kernel
\* compiler nor the template renderer raises
ValidPackCall ==
    /\ call.fn = "generate_pack_info"
    /\ ~ConfigFromContext(ctx, call.target, call.vec, call.kwargs).raised
    /\ Cardinality(DataTypes(call.items)) = 1
    /\ \A k \in 1..Len(call.items) : WithinFirstNeighbourhood(call.items[k].key)
    /\ call.result.run.error # "external error"

\* how often a step is in the log of the call
TimesRun(name) ==
    Cardinality({i \in 1..Len(call.result.run.log) : call.result.run.log[i] = name})

\* C22 as stated: whatever configuration the caller passes (a ghost-layer count of
\* the caller's included), the pack list and the unpack list of every direction set
\* are compiled exactly once with the caller's configuration in which only the
\* ghost-layer count is replaced by 0, and the fused kernel is compiled once with the
\* caller's configuration as it is.
C22_CompiledOnceWithZeroGhostLayers ==
    ValidPackCall =>
        LET cfg == ConfigFromContext(ctx, call.target, call.vec, call.kwargs).config
            \* a caller that passes no vectorisation info asks for none
            caller == IF call.vec.given THEN cfg
                      ELSE [cfg EXCEPT !.cpu_vectorize_info = NoVectorizeInfo]
        IN  /\ \A k \in 1..Len(call.items) :
                  /\ TimesRun(<<"create_kernel pack", k>>) = 1
                  /\ TimesRun(<<"create_kernel unpack", k>>) = 1
            /\ TimesRun(<<"create_kernel fused", 0>>) = 1
            /\ call.result.configs.config_zero_gl = [caller EXCEPT !.ghost_layers = <<0>>]
            /\ call.result.configs.config = caller

\* the communication directions derived from the accesses of the kernel of the call:
\* for pull those of the inverted offsets of the reads off the centre, for push those
\* of the offsets of the writes off the centre
DerivedDirections ==
    UNION {Range(CommDirections(IF call.kind = "pull" THEN [i \in 1..3 |-> -fa.offsets[i]]
                                ELSE fa.offsets)) :
              fa \in {x \in (IF call.kind = "pull" THEN call.kernel.reads
                             ELSE call.kernel.writes) : x.offsets # <<0, 0, 0>>}}

\* C27: every key of the spec generate_pack_info_from_kernel hands over holds exactly
\* one direction; a completed call has as many pack kernels, unpack kernels and
\* entries of elements_per_cell as there are distinct communication directions
\* derived from the accesses, one under the name of each, and elements_per_cell of a
\* direction is the number of terms packed for it.
C27_OneDirectionPerKey ==
    SpecHandedOver =>
        /\ \A i \in 1..Len(call.result.spec) : Len(call.result.spec[i].key) = 1
        /\ call.result.run.outcome = "completed" =>
              LET c == call.result.context
              IN  /\ Len(c.pack_kernels) = Cardinality(DerivedDirections)
                  /\ Len(c.unpack_kernels) = Cardinality(DerivedDirections)
                  /\ Len(c.elements_per_cell) = Cardinality(DerivedDirections)
                  /\ \A D \in DerivedDirections :
                        /\ ValuesAt(c.elements_per_cell, <<DirString(D)>>)
                              = {Cardinality(SpecTerms(D))}
                        /\ \E v \in ValuesAt(c.pack_kernels, <<DirString(D)>>) :
                              Len(v.assignments) = Cardinality(SpecTerms(D))
                        /\ \E v \in ValuesAt(c.unpack_kernels, <<DirString(D)>>) :
                              Len(v.assignments) = Cardinality(SpecTerms(D))

\* a completed pull call on a kernel reading f(0) and f(1) at (1,0,0): the two reads
\* share the one direction W, whose kernel packs two terms
C27_Witness ==
    /\ SpecHandedOver
    /\ call.kind = "pull"
    /\ call.result.run.outcome = "completed"
    /\ call.kernel.reads = {Access(FieldF, <<1, 0, 0>>, <<0>>), Access(FieldF, <<1, 0, 0>>, <<1>>)}
    /\ Len(call.result.context.pack_kernels) = 1
    /\ ValuesAt(call.result.context.elements_per_cell, << <<"W">> >>) = {2}

\* the steps of generate_pack_info that validate its input, and those that call the
\* kernel compiler for the pack or unpack list of a direction set
IsValidation(name) == name[1] \in {"fields to pack", "one data type", "first neighbourhood"}
IsPackCompile(name) == name[1] \in {"create_kernel pack", "create_kernel unpack"}

\* C25 as stated: in a call of generate_pack_info no kernel is compiled before the
\* last validation of the input (one data type, every direction set within the first
\* neighbourhood), the fused kernel is compiled after all pack and unpack kernels,
\* and write_file is called only after the fused kernel has been compiled.
C25_PhaseOrder ==
    call.fn = "generate_pack_info" =>
        LET log == call.result.run.log
        IN  /\ \A i, j \in 1..Len(log) :
                  i < j =>
                     /\ IsValidation(log[j]) =>
                           ~IsPackCompile(log[i]) /\ log[i][1] # "create_kernel fused"
                     /\ IsPackCompile(log[j]) => log[i][1] # "create_kernel fused"
                     /\ log[j][1] = "create_kernel fused" => ~IsWrite(log[i])
            /\ \A j \in 1..Len(log) :
                  IsWrite(log[j]) => \E i \in 1..j : log[i][1] = "create_kernel fused"

\* C19 as stated: generate_pack_info_from_kernel with kind 'pull' or 'push' ends in
\* an error whenever an access on a right-hand or on a left-hand side of the kernel
\* has an offset component of magnitude greater than 1, and generate_pack_info ends
\* in an error whenever a direction of a direction set has such a component.
C19_HaloWidthValidated ==
    /\ (/\ call.fn = "generate_pack_info_from_kernel"
        /\ call.kind \in {"pull", "push"}
        /\ ~HaloWithinOne(call.kernel.reads \cup call.kernel.writes))
           => call.result.run.outcome = "raised"
    /\ (/\ call.fn = "generate_pack_info"
        /\ \E i \in 1..Len(call.items) : ~WithinFirstNeighbourhood(call.items[i].key))
           => call.result.run.outcome = "raised"

\* C20 as stated: with kind='push' the spec handed to generate_pack_info holds, for
\* each direction D, exactly the centre forms of the write accesses whose offset o is
\* not zero and for which D is among comm_directions(o); write accesses at the centre
\* and read accesses contribute nothing.
C20_PushGrouping ==
    (SpecHandedOver /\ call.kind = "push") =>
        LET expected(D) ==
                {[field |-> fa.field, offsets |-> <<0, 0, 0>>, index |-> fa.index] :
                    fa \in {x \in call.kernel.writes :
                               /\ x.offsets # <<0, 0, 0>>
                               /\ D \in Range(CommDirections(x.offsets))}}
        IN  \A D \in SpecDirections \cup
                     UNION {Range(CommDirections(x.offsets)) : x \in call.kernel.writes} :
                /\ SpecTerms(D) = expected(D)
                /\ D \in SpecDirections <=> expected(D) # {}

----------------------------------------------------------------------------
(* The lowering of expressions to text: walberla_lbm_generation.py             *)

\* sympy expressions, as far as the lowering reads them.  A name and a printed text
\* are sequences of pieces of text, read one after the other.
Symbol(name) == [op |-> "Symbol", name |-> name]
FieldAccess(fa) == [op |-> "Access", access |-> fa]
Rational(p, q) == [op |-> "Rational", p |-> p, q |-> q]
Float(text) == [op |-> "Float", text |-> text]
Add(args) == [op |-> "Add", args |-> args]
Mul(args) == [op |-> "Mul", args |-> args]

IsLeaf(expr) == expr.op \notin {"Add", "Mul"}

\* the leaves expressions are made of in this model
LeavesU ==
    {Symbol(<<"rho">>), Symbol(<<"f">>),
     FieldAccess(Access(FieldF, <<0, 0, 0>>, <<0>>)),
     FieldAccess(Access(FieldF, <<1, 0, 0>>, <<1>>)),
     FieldAccess(Access(FieldS, <<0, 0, 0>>, <<>>)),
     FieldAccess(Access(FieldT, <<0, 0, 0>>, <<0, 1>>)),
     Rational(1, 2), Float("0.25")}

\* the expressions handed to the lowering: a leaf, or a sum or product of two leaves
ExpressionsU ==
    LeavesU \cup {Add(<<a, b>>) : a, b \in LeavesU} \cup {Mul(<<a, b>>) : a, b \in LeavesU}

RECURSIVE Atoms(_)
\* expr.atoms(sp.Symbol); a Field.Access is a Symbol
Atoms(expr) ==
    IF expr.op \in {"Symbol", "Access"} THEN {expr}
    ELSE IF IsLeaf(expr) THEN {}
    ELSE UNION {Atoms(expr.args[i]) : i \in 1..Len(expr.args)}

RECURSIVE Subs(_, _)
\* expr.subs(substitutions); substitutions is a function on some atoms
Subs(expr, substitutions) ==
    IF expr \in DOMAIN substitutions THEN substitutions[expr]
    ELSE IF IsLeaf(expr) THEN expr
    ELSE [expr EXCEPT !.args = [i \in 1..Len(expr.args) |-> Subs(expr.args[i], substitutions)]]

EndsWith(text, c) == text # <<>> /\ text[Len(text)] = c

\* the prefixes callers lower with: member access, none, a pointer
PrefixesU == {<<"l", "m", ".">>, <<>>, <<"p", "-", ">">>}

\* lines 248: variables_without_prefix as a list of names, whatever it was given as
Names(variables_without_prefix) ==
    {variables_without_prefix[i].name : i \in 1..Len(variables_without_prefix)}

\* the symbol a field access is replaced by, without the separator after the name
AccessorSymbolNoSeparator(fa, variable_prefix, names) ==
    LET prefix == IF <<fa.field.name>> \in names THEN <<>> ELSE variable_prefix
    IN  IF IndexDimensions(fa.field) = 0
        THEN Symbol(prefix \o <<fa.field.name>> \o <<"->get(x,y,z)">>)
        ELSE Symbol(prefix \o <<fa.field.name>>
                    \o <<"->get(x,y,z,", ToString(fa.index[1]), ")">>)

\* lines 257-267: the symbol a field access is replaced by
AccessorSymbol(fa, variable_prefix, names) ==
    LET prefix == IF <<fa.field.name>> \in names THEN <<>> ELSE variable_prefix
        postfix2 == IF EndsWith(prefix, ".") THEN <<"_">> ELSE <<>>
    IN  IF IndexDimensions(fa.field) = 0
        THEN Symbol(prefix \o <<fa.field.name>> \o postfix2 \o <<"->get(x,y,z)">>)
        ELSE Symbol(prefix \o <<fa.field.name>> \o postfix2
                    \o <<"->get(x,y,z,", ToString(fa.index[1]), ")">>)

\* field_and_symbol_substitute(expr, variable_prefix, variables_without_prefix).
\* An entry of variables_without_prefix is a symbol or a string; either way its name
\* is what counts.
FieldAndSymbolSubstitute(expr, variable_prefix, variables_without_prefix) ==
    LET names == Names(variables_without_prefix)
        postfix == IF EndsWith(variable_prefix, ".") THEN <<"_">> ELSE <<>>
        atoms == Atoms(expr)
        replaced == {sym \in atoms : sym.op = "Access" \/ sym.name \notin names}
        substitutions ==
            [sym \in replaced |->
                IF sym.op = "Access"
                THEN AccessorSymbol(sym.access, variable_prefix, names)
                ELSE Symbol(variable_prefix \o sym.name \o postfix)]
    IN  IF \E sym \in atoms : sym.op = "Access" /\ IndexDimensions(sym.access.field) > 1
        THEN [raised |-> TRUE, error |-> "AssertionError: walberla supports only 0 or 1 index dimensions"]
        ELSE [raised |-> FALSE, error |-> "", expr |-> Subs(expr, substitutions)]

RECURSIVE DoPrint(_)
\* cpp_printer.doprint(expr): the text of an expression
DoPrint(expr) ==
    IF expr.op \in {"Symbol", "TypedSymbol"} THEN expr.name
    ELSE IF expr.op = "Access"
    THEN <<expr.access.field.name, "_">> \o DirString(expr.access.offsets)
         \o Concat([i \in 1..Len(expr.access.index) |-> <<"^", ToString(expr.access.index[i])>>])
    ELSE IF expr.op = "Rational" THEN <<ToString(expr.p), "/", ToString(expr.q)>>
    ELSE IF expr.op = "Float" THEN <<expr.text>>
    ELSE IF expr.op = "Add" THEN DoPrint(expr.args[1]) \o <<" + ">> \o DoPrint(expr.args[2])
    ELSE DoPrint(expr.args[1]) \o <<"*">> \o DoPrint(expr.args[2])

\* stencil_switch_statement(stencil, values): the cases of the rendered switch, in
\* the order of dir_to_value_dict, and its default branch
StencilSwitchStatement(stencil, values) ==
    [cases |-> PutAll(<<>>, [i \in 1..Min(Len(stencil), Len(values)) |->
                                [key |-> DirString(stencil[i]), value |-> DoPrint(values[i])]]),
     default |-> "WALBERLA_ABORT(\"Invalid Direction\")"]

\* the stencils a switch is generated for in this model
SwitchStencils == {SubSeq(D2Q9, 1, 3), SubSeq(D3Q19, 1, 5)}

\* the expressions the cases of a switch return in this model
SwitchValuesU ==
    {Symbol(<<"rho">>), FieldAccess(Access(FieldF, <<1, 0, 0>>, <<1>>)),
     Add(<<Symbol(<<"rho">>), Rational(1, 2)>>)}

\* the lists variables_without_prefix is given as in this model
WithoutPrefixU ==
    {<<>>, <<Symbol(<<"rho">>)>>, <<[op |-> "str", name |-> <<"f">>]>>,
     <<[op |-> "str", name |-> <<"s">>], Symbol(<<"f">>)>>}

\* TypedSymbol(name, dtype)
TypedSymbol(name, dtype) == [op |-> "TypedSymbol", name |-> name, dtype |-> dtype]

\* line 294: expr.args[i] == sp.Rational or expr.args[i] == sp.Float compares an
\* argument, an instance, with the classes themselves, and no expression equals a
\* class
EqualsNumberClass(arg) == arg \in {[op |-> "class Rational"], [op |-> "class Float"]}

RECURSIVE RecurseRaises(_)
\* lines 292-297: recurse(expr).  Where the comparison held, line 295 would assign to
\* an element of the tuple expr.args, which raises.
RecurseRaises(expr) ==
    IF IsLeaf(expr) THEN FALSE
    ELSE \E i \in 1..Len(expr.args) :
            EqualsNumberClass(expr.args[i]) \/ RecurseRaises(expr.args[i])

\* type_expr(eq, dtype): recurse, then every symbol replaced by a typed symbol of
\* its name
TypeExpr(eq, dtype) ==
    IF RecurseRaises(eq)
    THEN [raised |-> TRUE, error |-> "TypeError: 'tuple' object does not support item assignment"]
    ELSE [raised |-> FALSE, error |-> "",
          expr |-> Subs(eq, [sym \in Atoms(eq) |-> TypedSymbol(DoPrint(sym), dtype)])]

\* a function applied in the course of a call, with the expression it is applied to
Applied(fn, arg) == [fn |-> fn, arg |-> arg]

\* expression_to_code(expr, variable_prefix, variables_without_prefix, dtype): the
\* functions it applies, innermost first, and the text it returns
ExpressionToCode(expr, variable_prefix, variables_without_prefix, dtype) ==
    LET sub == FieldAndSymbolSubstitute(expr, variable_prefix, variables_without_prefix)
        typed == TypeExpr(sub.expr, dtype)
    IN  IF sub.raised
        THEN [raised |-> TRUE, error |-> sub.error,
              applied |-> <<Applied("field_and_symbol_substitute", expr)>>]
        ELSE IF typed.raised
        THEN [raised |-> TRUE, error |-> typed.error,
              applied |-> <<Applied("field_and_symbol_substitute", expr),
                            Applied("type_expr", sub.expr)>>]
        ELSE [raised |-> FALSE, error |-> "",
              applied |-> <<Applied("field_and_symbol_substitute", expr),
                            Applied("type_expr", sub.expr),
                            Applied("doprint", typed.expr)>>,
              text |-> DoPrint(typed.expr)]

\* the dtypes callers lower with
DtypesU == {"double", "float"}

\* what equations_to_code does on one equation: lines 314-318, the arguments of
\* SympyAssignment evaluated from left to right, then the backend printing the
\* assignment
EquationToCode(eq, variable_prefix, without, dtype) ==
    LET lhs == TypeExpr(eq.lhs, dtype)
        sub == FieldAndSymbolSubstitute(eq.rhs, variable_prefix, without)
        rhs == TypeExpr(sub.expr, dtype)
        first == <<Applied("type_expr", eq.lhs)>>
        second == first \o <<Applied("field_and_symbol_substitute", eq.rhs)>>
        third == second \o <<Applied("type_expr", sub.expr)>>
    IN  IF lhs.raised THEN [raised |-> TRUE, error |-> lhs.error, applied |-> first]
        ELSE IF sub.raised THEN [raised |-> TRUE, error |-> sub.error, applied |-> second]
        ELSE IF rhs.raised THEN [raised |-> TRUE, error |-> rhs.error, applied |-> third]
        ELSE [raised |-> FALSE, error |-> "",
              applied |-> third \o <<Applied("c_backend", [lhs |-> lhs.expr, rhs |-> rhs.expr])>>,
              line |-> DoPrint(lhs.expr) \o <<" = ">> \o DoPrint(rhs.expr) \o <<";">>]

\* equations_to_code(equations, variable_prefix, variables_without_prefix, dtype):
\* the names of all left-hand sides join variables_without_prefix; the first
\* equation that raises ends the call
EquationsToCode(equations, variable_prefix, variables_without_prefix, dtype) ==
    LET left_hand_side_names ==
            [i \in 1..Len(equations) |-> [op |-> "str", name |-> equations[i].lhs.name]]
        each == [i \in 1..Len(equations) |->
                    EquationToCode(equations[i], variable_prefix,
                                   variables_without_prefix \o left_hand_side_names, dtype)]
        failed == {i \in 1..Len(equations) : each[i].raised}
        last == IF failed = {} THEN Len(equations)
                ELSE CHOOSE i \in failed : \A j \in failed : i <= j
    IN  IF failed = {}
        THEN [raised |-> FALSE, error |-> "",
              applied |-> Concat([i \in 1..last |-> each[i].applied]),
              lines |-> [i \in 1..last |-> each[i].line]]
        ELSE [raised |-> TRUE, error |-> each[last].error,
              applied |-> Concat([i \in 1..last |-> each[i].applied])]

\* the equations handed to equations_to_code in this model
EquationsU ==
    [lhs : {Symbol(<<"rho">>), Symbol(<<"u">>)},
     rhs : {Rational(1, 2),
            Add(<<Symbol(<<"u">>), Float("0.25")>>),
            Mul(<<Rational(1, 2), FieldAccess(Access(FieldF, <<1, 0, 0>>, <<1>>))>>),
            FieldAccess(Access(FieldT, <<0, 0, 0>>, <<0, 1>>))}]

\* the longest list of equations
MaxEquations == 2

CallEquationsToCode ==
    /\ call.fn = "none"
    /\ \E m \in 1..MaxEquations :
         \E equations \in [1..m -> EquationsU], variable_prefix \in PrefixesU,
            variables_without_prefix \in {<<>>, <<Symbol(<<"rho">>)>>}, dtype \in DtypesU :
            call' = [fn |-> "equations_to_code", equations |-> equations,
                     variable_prefix |-> variable_prefix,
                     variables_without_prefix |-> variables_without_prefix,
                     dtype |-> dtype,
                     result |-> EquationsToCode(equations, variable_prefix,
                                                variables_without_prefix, dtype)]
    /\ UNCHANGED <<ctx, vecInfo, vecInfo0>>

CallExpressionToCode ==
    /\ call.fn = "none"
    /\ \E expr \in ExpressionsU, variable_prefix \in PrefixesU,
          variables_without_prefix \in WithoutPrefixU, dtype \in DtypesU :
          call' = [fn |-> "expression_to_code", expr |-> expr,
                   variable_prefix |-> variable_prefix,
                   variables_without_prefix |-> variables_without_prefix,
                   dtype |-> dtype,
                   result |-> ExpressionToCode(expr, variable_prefix,
                                               variables_without_prefix, dtype)]
    /\ UNCHANGED <<ctx, vecInfo, vecInfo0>>

CallStencilSwitchStatement ==
    /\ call.fn = "none"
    /\ \E stencil \in SwitchStencils :
         \E values \in UNION {[1..m -> SwitchValuesU] : m \in 0..(Len(stencil) + 1)} :
            call' = [fn |-> "stencil_switch_statement", stencil |-> stencil,
                     values |-> values, result |-> StencilSwitchStatement(stencil, values)]
    /\ UNCHANGED <<ctx, vecInfo, vecInfo0>>

CallFieldAndSymbolSubstitute ==
    /\ call.fn = "none"
    /\ \E expr \in ExpressionsU, variable_prefix \in PrefixesU,
          variables_without_prefix \in WithoutPrefixU :
          call' = [fn |-> "field_and_symbol_substitute", expr |-> expr,
                   variable_prefix |-> variable_prefix,
                   variables_without_prefix |-> variables_without_prefix,
                   result |-> FieldAndSymbolSubstitute(expr, variable_prefix,
                                                       variables_without_prefix)]
    /\ UNCHANGED <<ctx, vecInfo, vecInfo0>>

InitLowering ==
    /\ ctx = PlainContext
    /\ vecInfo = EmptyDict
    /\ vecInfo0 = EmptyDict
    /\ call = NoCall

NextLowering ==
    \/ CallStencilSwitchStatement
    \/ CallFieldAndSymbolSubstitute
    \/ CallExpressionToCode
    \/ CallEquationsToCode
    \/ Return

SpecLowering == InitLowering /\ [][NextLowering]_vars

----------------------------------------------------------------------------
(* Claims on the lowering, checked under SpecLowering *)

\* C15 as stated: whenever stencil_switch_statement returns, the switch has one case
\* per stencil entry, in the order of the stencil, the i-th labelled with the name of
\* the i-th offset and returning the text of the i-th expression, and a default
\* branch that aborts.
C15_SwitchTotalAndPositional ==
    call.fn = "stencil_switch_statement" =>
        /\ Len(call.result.cases) = Len(call.stencil)
        /\ \A i \in 1..Len(call.result.cases) :
              /\ i <= Len(call.values)
              /\ call.result.cases[i].key = DirString(call.stencil[i])
              /\ call.result.cases[i].value = DoPrint(call.values[i])
        /\ call.result.default = "WALBERLA_ABORT(\"Invalid Direction\")"

RECURSIVE HasUntypedLiteral(_)
\* a rational or floating-point literal is somewhere inside the expression
HasUntypedLiteral(expr) ==
    IF expr.op \in {"Rational", "Float"} THEN TRUE
    ELSE IF IsLeaf(expr) THEN FALSE
    ELSE \E i \in 1..Len(expr.args) : HasUntypedLiteral(expr.args[i])

\* C23 as stated: in a call of expression_to_code or equations_to_code, the expression
\* the substitution of symbols and field accesses is applied to holds no rational or
\* floating-point literal any more (the literals are typed before), and neither does
\* the lowered expression that is printed.
C23_LiteralsTypedBeforeSubstitution ==
    call.fn \in {"expression_to_code", "equations_to_code"} =>
        \A i \in 1..Len(call.result.applied) :
            LET a == call.result.applied[i]
            IN  /\ a.fn \in {"field_and_symbol_substitute", "doprint"} =>
                      ~HasUntypedLiteral(a.arg)
                /\ a.fn = "c_backend" =>
                      ~HasUntypedLiteral(a.arg.lhs) /\ ~HasUntypedLiteral(a.arg.rhs)

\* C24 as stated: every case value of the switch stencil_switch_statement returns is
\* the text expression_to_code produces for the expression of that case (for some
\* prefix, list of variables without prefix and dtype), with field accesses replaced
\* by accessor calls and symbols renamed.
C24_SwitchValuesAreLowered ==
    call.fn = "stencil_switch_statement" =>
        \E variable_prefix \in PrefixesU, variables_without_prefix \in WithoutPrefixU,
           dtype \in DtypesU :
            \A i \in 1..Len(call.result.cases) :
                LET lowered == ExpressionToCode(call.values[i], variable_prefix,
                                                variables_without_prefix, dtype)
                IN  ~lowered.raised /\ call.result.cases[i].value = lowered.text

\* the leaves of the expression of a call, each with what stands in its place in the
\* result
LoweredLeaves ==
    IF IsLeaf(call.expr) THEN {<<call.expr, call.result.expr>>}
    ELSE {<<call.expr.args[i], call.result.expr.args[i]>> : i \in 1..Len(call.expr.args)}

====
